---------------------------- MODULE Spec2Model ----------------------------
(***************************************************************************)
(* A model of the scan pipeline of the food-label scanner: the scan        *)
(* orchestrator (ScanService.processScan and the scan-history store), the  *)
(* ingredient classifier (IngredientService, AIAnalysisService), the       *)
(* dietary profile (DietaryProfileService) and the personalization layer   *)
(* (PersonalizationService).                                               *)
(*                                                                         *)
(* JavaScript strings are sequences of one-character strings, so that      *)
(* toLowerCase, trim, includes and the regular expressions of the source   *)
(* are computed character by character.                                    *)
(***************************************************************************)
EXTENDS Integers, Sequences, FiniteSets, TLC

(***************************************************************************)
(* Bounds of the model.                                                    *)
(***************************************************************************)
\* Longest candidate list handed to analyzeIngredients.
MaxLen == 2

\* Number of profile edits the user performs during one analysis.
MaxEdits == 2

\* Number of storage operations (AsyncStorage.getItem / setItem) that fail.
MaxFaults == 1

\* Longest list of ratings handed to calculateSafetyScore.
MaxRatings == 4

\* Number of custom avoidances of a stored profile.
MaxCustom == 2

(***************************************************************************)
(* Strings.                                                                *)
(***************************************************************************)
\* The lower-case letter of each upper-case letter.
LowerCaseOf ==
  "A" :> "a" @@ "B" :> "b" @@ "C" :> "c" @@ "D" :> "d" @@ "E" :> "e" @@ "F" :> "f" @@
  "G" :> "g" @@ "H" :> "h" @@ "I" :> "i" @@ "J" :> "j" @@ "K" :> "k" @@ "L" :> "l" @@
  "M" :> "m" @@ "N" :> "n" @@ "O" :> "o" @@ "P" :> "p" @@ "Q" :> "q" @@ "R" :> "r" @@
  "S" :> "s" @@ "T" :> "t" @@ "U" :> "u" @@ "V" :> "v" @@ "W" :> "w" @@ "X" :> "x" @@
  "Y" :> "y" @@ "Z" :> "z"

Letters == DOMAIN LowerCaseOf \cup {LowerCaseOf[c] : c \in DOMAIN LowerCaseOf}

Digits == {"0","1","2","3","4","5","6","7","8","9"}

\* White space removed by String.prototype.trim.
Whitespace == {" ", "\n", "\t"}

\* The class \w of the regular expressions.
IsWordChar(c) == c \in Letters \/ c \in Digits \/ c = "_"

toLowerCaseChar(c) == IF c \in DOMAIN LowerCaseOf THEN LowerCaseOf[c] ELSE c

\* String.prototype.toLowerCase
toLowerCase(s) == [i \in 1..Len(s) |-> toLowerCaseChar(s[i])]

\* String.prototype.trim
trim(s) ==
  LET keep == {i \in 1..Len(s) : s[i] \notin Whitespace}
  IN  IF keep = {} THEN <<>>
      ELSE SubSeq(s, CHOOSE i \in keep : \A j \in keep : i <= j,
                     CHOOSE i \in keep : \A j \in keep : j <= i)

\* String.prototype.includes
includes(s, sub) ==
  \/ sub = <<>>
  \/ \E i \in 1..(Len(s) - Len(sub) + 1) :
       s[i] = sub[1] /\ SubSeq(s, i, i + Len(sub) - 1) = sub

\* The least element of a non-empty set of integers.
Least(S) == CHOOSE i \in S : \A j \in S : i <= j

\* Math.round of the non-negative quotient num / den: the nearest integer,
\* halves rounded up.
MathRound(num, den) == (2 * num + den) \div (2 * den)

\* The words /\b(acid|extract|oil|powder|natural|artificial)\b/g removes.
QualifierWords ==
  << <<"a","c","i","d">>,
     <<"e","x","t","r","a","c","t">>,
     <<"o","i","l">>,
     <<"p","o","w","d","e","r">>,
     <<"n","a","t","u","r","a","l">>,
     <<"a","r","t","i","f","i","c","i","a","l">> >>

\* Word w matches at position i of s between two word boundaries.
MatchesWordAt(s, i, w) ==
  /\ i + Len(w) - 1 <= Len(s)
  /\ s[i] = w[1]
  /\ SubSeq(s, i, i + Len(w) - 1) = w
  /\ (i = 1 \/ ~IsWordChar(s[i - 1]))
  /\ (i + Len(w) > Len(s) \/ ~IsWordChar(s[i + Len(w)]))

\* s.replace(/\b(acid|extract|oil|powder|natural|artificial)\b/g, '') from
\* position i on.
RECURSIVE removeQualifiersFrom(_, _)
removeQualifiersFrom(s, i) ==
  IF i > Len(s) THEN <<>>
  ELSE IF \E k \in 1..Len(QualifierWords) : MatchesWordAt(s, i, QualifierWords[k])
       THEN LET k == CHOOSE k \in 1..Len(QualifierWords) :
                       /\ MatchesWordAt(s, i, QualifierWords[k])
                       /\ \A j \in 1..(k - 1) : ~MatchesWordAt(s, i, QualifierWords[j])
            IN  removeQualifiersFrom(s, i + Len(QualifierWords[k]))
       ELSE <<s[i]>> \o removeQualifiersFrom(s, i + 1)

removeQualifiers(s) == trim(removeQualifiersFrom(s, 1))

(***************************************************************************)
(* KnowledgeBase: IngredientService.ingredientDatabase, a Map iterated in  *)
(* insertion order (each entry's key, then its aliases).  `entry' stands   *)
(* for the explanation, sources, health concerns and alternatives of the   *)
(* entry, which are copied together.                                       *)
(***************************************************************************)
ingredientDatabase ==
  <<
    [key |-> <<"w","a","t","e","r">>,
     entry |-> "Water", safetyRating |-> "safe", confidence |-> 100],
    [key |-> <<"o","r","g","a","n","i","c"," ","c","a","n","e"," ","s","u","g","a","r">>,
     entry |-> "Organic Cane Sugar", safetyRating |-> "caution", confidence |-> 85],
    [key |-> <<"n","a","t","u","r","a","l"," ","f","l","a","v","o","r","s">>,
     entry |-> "Natural Flavors", safetyRating |-> "caution", confidence |-> 70],
    [key |-> <<"c","i","t","r","i","c"," ","a","c","i","d">>,
     entry |-> "Citric Acid", safetyRating |-> "safe", confidence |-> 95],
    [key |-> <<"s","o","d","i","u","m"," ","b","e","n","z","o","a","t","e">>,
     entry |-> "Sodium Benzoate", safetyRating |-> "avoid", confidence |-> 80],
    [key |-> <<"a","s","c","o","r","b","i","c"," ","a","c","i","d">>,
     entry |-> "Ascorbic Acid", safetyRating |-> "safe", confidence |-> 100],
    [key |-> <<"v","i","t","a","m","i","n"," ","c">>,
     entry |-> "Ascorbic Acid", safetyRating |-> "safe", confidence |-> 100],
    [key |-> <<"a","r","t","i","f","i","c","i","a","l"," ","c","o","l","o","r"," ","r","e","d"," ","4","0">>,
     entry |-> "Artificial Color Red 40", safetyRating |-> "avoid", confidence |-> 85],
    [key |-> <<"r","e","d"," ","4","0">>,
     entry |-> "Artificial Color Red 40", safetyRating |-> "avoid", confidence |-> 85],
    [key |-> <<"r","e","d"," ","d","y","e"," ","4","0">>,
     entry |-> "Artificial Color Red 40", safetyRating |-> "avoid", confidence |-> 85],
    [key |-> <<"g","u","m"," ","a","r","a","b","i","c">>,
     entry |-> "Gum Arabic", safetyRating |-> "safe", confidence |-> 90],
    [key |-> <<"h","i","g","h"," ","f","r","u","c","t","o","s","e"," ","c","o","r","n"," ","s","y","r","u","p">>,
     entry |-> "High Fructose Corn Syrup", safetyRating |-> "avoid", confidence |-> 90],
    [key |-> <<"e","n","r","i","c","h","e","d"," ","f","l","o","u","r">>,
     entry |-> "Enriched Flour", safetyRating |-> "caution", confidence |-> 75]
  >>

\* The database of the AI-enhanced IngredientService.
ingredientDatabaseExt ==
  <<
    [key |-> <<"w","a","t","e","r">>,
     entry |-> "Water", safetyRating |-> "safe", confidence |-> 100],
    [key |-> <<"o","r","g","a","n","i","c"," ","c","a","n","e"," ","s","u","g","a","r">>,
     entry |-> "Organic Cane Sugar", safetyRating |-> "caution", confidence |-> 85],
    [key |-> <<"n","a","t","u","r","a","l"," ","f","l","a","v","o","r","s">>,
     entry |-> "Natural Flavors", safetyRating |-> "caution", confidence |-> 70],
    [key |-> <<"c","i","t","r","i","c"," ","a","c","i","d">>,
     entry |-> "Citric Acid", safetyRating |-> "safe", confidence |-> 95],
    [key |-> <<"s","o","d","i","u","m"," ","b","e","n","z","o","a","t","e">>,
     entry |-> "Sodium Benzoate", safetyRating |-> "avoid", confidence |-> 80],
    [key |-> <<"a","s","c","o","r","b","i","c"," ","a","c","i","d">>,
     entry |-> "Ascorbic Acid", safetyRating |-> "safe", confidence |-> 100],
    [key |-> <<"v","i","t","a","m","i","n"," ","c">>,
     entry |-> "Ascorbic Acid", safetyRating |-> "safe", confidence |-> 100],
    [key |-> <<"a","r","t","i","f","i","c","i","a","l"," ","c","o","l","o","r"," ","r","e","d"," ","4","0">>,
     entry |-> "Artificial Color Red 40", safetyRating |-> "avoid", confidence |-> 85],
    [key |-> <<"r","e","d"," ","4","0">>,
     entry |-> "Artificial Color Red 40", safetyRating |-> "avoid", confidence |-> 85],
    [key |-> <<"r","e","d"," ","d","y","e"," ","4","0">>,
     entry |-> "Artificial Color Red 40", safetyRating |-> "avoid", confidence |-> 85],
    [key |-> <<"g","u","m"," ","a","r","a","b","i","c">>,
     entry |-> "Gum Arabic", safetyRating |-> "safe", confidence |-> 90],
    [key |-> <<"h","i","g","h"," ","f","r","u","c","t","o","s","e"," ","c","o","r","n"," ","s","y","r","u","p">>,
     entry |-> "High Fructose Corn Syrup", safetyRating |-> "avoid", confidence |-> 90],
    [key |-> <<"e","n","r","i","c","h","e","d"," ","f","l","o","u","r">>,
     entry |-> "Enriched Flour", safetyRating |-> "caution", confidence |-> 75],
    [key |-> <<"s","a","l","t">>,
     entry |-> "Salt", safetyRating |-> "safe", confidence |-> 95],
    [key |-> <<"s","o","d","i","u","m"," ","c","h","l","o","r","i","d","e">>,
     entry |-> "Salt", safetyRating |-> "safe", confidence |-> 95],
    [key |-> <<"t","a","b","l","e"," ","s","a","l","t">>,
     entry |-> "Salt", safetyRating |-> "safe", confidence |-> 95],
    [key |-> <<"s","e","a"," ","s","a","l","t">>,
     entry |-> "Salt", safetyRating |-> "safe", confidence |-> 95],
    [key |-> <<"p","a","p","r","i","k","a">>,
     entry |-> "Paprika", safetyRating |-> "safe", confidence |-> 100],
    [key |-> <<"t","u","r","m","e","r","i","c">>,
     entry |-> "Turmeric", safetyRating |-> "safe", confidence |-> 100],
    [key |-> <<"g","a","r","l","i","c">>,
     entry |-> "Garlic", safetyRating |-> "safe", confidence |-> 100],
    [key |-> <<"o","n","i","o","n">>,
     entry |-> "Onion", safetyRating |-> "safe", confidence |-> 100],
    [key |-> <<"b","l","a","c","k"," ","p","e","p","p","e","r">>,
     entry |-> "Black Pepper", safetyRating |-> "safe", confidence |-> 100],
    [key |-> <<"p","e","p","p","e","r">>,
     entry |-> "Black Pepper", safetyRating |-> "safe", confidence |-> 100],
    [key |-> <<"g","r","o","u","n","d"," ","b","l","a","c","k"," ","p","e","p","p","e","r">>,
     entry |-> "Black Pepper", safetyRating |-> "safe", confidence |-> 100],
    [key |-> <<"o","l","i","v","e"," ","o","i","l">>,
     entry |-> "Olive Oil", safetyRating |-> "safe", confidence |-> 100],
    [key |-> <<"e","x","t","r","a"," ","v","i","r","g","i","n"," ","o","l","i","v","e"," ","o","i","l">>,
     entry |-> "Olive Oil", safetyRating |-> "safe", confidence |-> 100],
    [key |-> <<"e","v","o","o">>,
     entry |-> "Olive Oil", safetyRating |-> "safe", confidence |-> 100],
    [key |-> <<"v","i","n","e","g","a","r">>,
     entry |-> "Vinegar", safetyRating |-> "safe", confidence |-> 95],
    [key |-> <<"l","e","m","o","n"," ","j","u","i","c","e">>,
     entry |-> "Lemon Juice", safetyRating |-> "safe", confidence |-> 100],
    [key |-> <<"l","e","m","o","n">>,
     entry |-> "Lemon Juice", safetyRating |-> "safe", confidence |-> 100],
    [key |-> <<"c","i","t","r","u","s">>,
     entry |-> "Lemon Juice", safetyRating |-> "safe", confidence |-> 100],
    [key |-> <<"r","o","s","e","m","a","r","y"," ","e","x","t","r","a","c","t">>,
     entry |-> "Rosemary Extract", safetyRating |-> "safe", confidence |-> 95]
  >>

\* AIAnalysisService: the table knowledgeBase of getEnhancedIngredientAnalysis.
knowledgeBase ==
  <<
    [key |-> <<"w","a","t","e","r">>,
     entry |-> "water", safetyRating |-> "safe", confidence |-> 100],
    [key |-> <<"o","r","g","a","n","i","c"," ","c","a","n","e"," ","s","u","g","a","r">>,
     entry |-> "organic cane sugar", safetyRating |-> "caution", confidence |-> 85],
    [key |-> <<"n","a","t","u","r","a","l"," ","f","l","a","v","o","r","s">>,
     entry |-> "natural flavors", safetyRating |-> "caution", confidence |-> 70],
    [key |-> <<"c","i","t","r","i","c"," ","a","c","i","d">>,
     entry |-> "citric acid", safetyRating |-> "safe", confidence |-> 95],
    [key |-> <<"s","o","d","i","u","m"," ","b","e","n","z","o","a","t","e">>,
     entry |-> "sodium benzoate", safetyRating |-> "avoid", confidence |-> 80],
    [key |-> <<"a","s","c","o","r","b","i","c"," ","a","c","i","d">>,
     entry |-> "ascorbic acid", safetyRating |-> "safe", confidence |-> 100],
    [key |-> <<"a","r","t","i","f","i","c","i","a","l"," ","c","o","l","o","r"," ","r","e","d"," ","4","0">>,
     entry |-> "artificial color red 40", safetyRating |-> "avoid", confidence |-> 85],
    [key |-> <<"h","i","g","h"," ","f","r","u","c","t","o","s","e"," ","c","o","r","n"," ","s","y","r","u","p">>,
     entry |-> "high fructose corn syrup", safetyRating |-> "avoid", confidence |-> 90]
  >>

(***************************************************************************)
(* IngredientService: lookup and the per-ingredient analysis.              *)
(***************************************************************************)
\* isSimilarIngredient(name1, name2)
isSimilarIngredient(name1, name2) ==
  LET cleanName1 == removeQualifiers(name1)
      cleanName2 == removeQualifiers(name2)
  IN  includes(cleanName1, cleanName2) \/ includes(cleanName2, cleanName1)

\* findIngredientInfo(ingredientName) over database db: <<info>> or <<>> (null).
\* The direct match, else the first entry in iteration order that is similar.
findIngredientInfo(db, ingredientName) ==
  LET direct == {i \in 1..Len(db) : db[i].key = ingredientName}
      similar == {i \in 1..Len(db) : isSimilarIngredient(ingredientName, db[i].key)}
  IN  IF direct # {} THEN <<db[Least(direct)]>>
      ELSE IF similar # {} THEN <<db[Least(similar)]>>
      ELSE <<>>

\* analyzeIngredient(ingredientName, position) of services/ingredientService.ts
analyzeIngredient(ingredientName, position) ==
  LET normalizedName == trim(toLowerCase(ingredientName))
      ingredientInfo == findIngredientInfo(ingredientDatabase, normalizedName)
  IN  IF ingredientInfo # <<>>
      THEN [name |-> ingredientName, position |-> position,
            rating |-> ingredientInfo[1].safetyRating,
            confidence |-> ingredientInfo[1].confidence,
            explanation |-> ingredientInfo[1].entry]
      ELSE [name |-> ingredientName, position |-> position,
            rating |-> "caution", confidence |-> 50,
            explanation |-> "not in our database"]

(***************************************************************************)
(* AIAnalysisService: the rule-based "AI" analysis.                        *)
(***************************************************************************)
\* The table `variations' of isIngredientMatch.
variations ==
  << [base |-> <<"s","u","g","a","r">>,
      vars |-> << <<"c","a","n","e"," ","s","u","g","a","r">>,
                  <<"o","r","g","a","n","i","c"," ","s","u","g","a","r">>,
                  <<"r","a","w"," ","s","u","g","a","r">> >>],
     [base |-> <<"v","i","t","a","m","i","n"," ","c">>,
      vars |-> << <<"a","s","c","o","r","b","i","c"," ","a","c","i","d">>,
                  <<"l","-","a","s","c","o","r","b","i","c"," ","a","c","i","d">> >>],
     [base |-> <<"r","e","d"," ","4","0">>,
      vars |-> << <<"r","e","d"," ","d","y","e"," ","4","0">>,
                  <<"f","d","&","c"," ","r","e","d"," ","4","0">>,
                  <<"a","r","t","i","f","i","c","i","a","l"," ","c","o","l","o","r"," ","r","e","d"," ","4","0">> >>],
     [base |-> <<"c","o","r","n"," ","s","y","r","u","p">>,
      vars |-> << <<"h","i","g","h"," ","f","r","u","c","t","o","s","e"," ","c","o","r","n"," ","s","y","r","u","p">>,
                  <<"h","f","c","s">> >>] >>

\* isIngredientMatch(ingredient, knownIngredient)
isIngredientMatch(ingredient, knownIngredient) ==
  LET cleanIngredient == removeQualifiers(ingredient)
      cleanKnown == removeQualifiers(knownIngredient)
  IN  \/ includes(cleanIngredient, cleanKnown)
      \/ includes(cleanKnown, cleanIngredient)
      \/ \E g \in 1..Len(variations) :
           \/ /\ includes(ingredient, variations[g].base)
              /\ \E v \in 1..Len(variations[g].vars) :
                   includes(knownIngredient, variations[g].vars[v])
           \/ /\ includes(knownIngredient, variations[g].base)
              /\ \E v \in 1..Len(variations[g].vars) :
                   includes(ingredient, variations[g].vars[v])

\* generateDefaultAnalysis(ingredient): the keyword looked for by each test
\* and the analysis it gives
generateDefaultAnalysis(ingredient) ==
  LET ingredientLower == toLowerCase(ingredient)
      has(w) == includes(ingredientLower, w)
  IN  IF has(<<"a","c","i","d">>)
      THEN [entry |-> "preservative", safetyRating |-> "caution", confidence |-> 60]
      ELSE IF has(<<"v","i","t","a","m","i","n">>) \/ has(<<"m","i","n","e","r","a","l">>)
      THEN [entry |-> "vitamin", safetyRating |-> "safe", confidence |-> 80]
      ELSE IF has(<<"c","o","l","o","r">>) \/ has(<<"d","y","e">>)
      THEN [entry |-> "coloring", safetyRating |-> "avoid", confidence |-> 70]
      ELSE IF has(<<"f","l","a","v","o","r">>)
      THEN [entry |-> "flavoring", safetyRating |-> "caution", confidence |-> 65]
      ELSE IF has(<<"s","u","g","a","r">>) \/ has(<<"s","y","r","u","p">>)
      THEN [entry |-> "sweetener", safetyRating |-> "caution", confidence |-> 75]
      ELSE IF has(<<"o","i","l">>) \/ has(<<"f","a","t">>)
      THEN [entry |-> "fat", safetyRating |-> "caution", confidence |-> 60]
      ELSE [entry |-> "unknown", safetyRating |-> "caution", confidence |-> 40]

\* getEnhancedIngredientAnalysis(ingredient), as returned through
\* analyzeIngredientWithAI.
getEnhancedIngredientAnalysis(ingredient) ==
  LET normalizedIngredient == toLowerCase(ingredient)
      kb == knowledgeBase
      exact == {i \in 1..Len(kb) : kb[i].key = normalizedIngredient}
      matching == {i \in 1..Len(kb) : isIngredientMatch(normalizedIngredient, kb[i].key)}
      analysis ==
        IF exact # {} THEN kb[Least(exact)]
        ELSE IF matching # {} THEN kb[Least(matching)]
        ELSE generateDefaultAnalysis(ingredient)
  IN  [ingredient |-> ingredient,
       safetyRating |-> analysis.safetyRating,
       confidence |-> IF analysis.confidence = 0 THEN 50 ELSE analysis.confidence,
       reasoning |-> analysis.entry]

\* analyzeIngredientsBatch(ingredients).ingredients
analyzeIngredientsBatch(ingredients) ==
  [i \in 1..Len(ingredients) |-> getEnhancedIngredientAnalysis(ingredients[i])]

\* analyzeIngredient(ingredientName, position, aiAnalysis) of the
\* AI-enhanced IngredientService
analyzeIngredientAI(ingredientName, position, aiAnalysis) ==
  LET normalizedName == trim(toLowerCase(ingredientName))
      ingredientInfo == findIngredientInfo(ingredientDatabaseExt, normalizedName)
  IN  IF aiAnalysis.confidence > 70
      THEN [name |-> ingredientName, position |-> position,
            rating |-> aiAnalysis.safetyRating,
            confidence |-> aiAnalysis.confidence,
            explanation |-> aiAnalysis.reasoning]
      ELSE IF ingredientInfo # <<>>
      THEN [name |-> ingredientName, position |-> position,
            rating |-> ingredientInfo[1].safetyRating,
            confidence |-> ingredientInfo[1].confidence,
            explanation |-> ingredientInfo[1].entry]
      ELSE [name |-> ingredientName, position |-> position,
            rating |-> "caution",
            confidence |-> IF aiAnalysis.confidence = 0 THEN 50
                           ELSE aiAnalysis.confidence,
            explanation |-> aiAnalysis.reasoning]

\* DietaryProfileService.DEFAULT_PREFERENCES
DEFAULT_PREFERENCES ==
  <<
    [id |-> "gluten-free", label |-> "Gluten-Free",
     ingredientsToAvoid |-> <<
       <<"w","h","e","a","t"," ","f","l","o","u","r">>,
       <<"e","n","r","i","c","h","e","d"," ","f","l","o","u","r">>,
       <<"b","a","r","l","e","y">>,
       <<"r","y","e">>,
       <<"m","a","l","t">>,
       <<"w","h","e","a","t"," ","s","t","a","r","c","h">>,
       <<"w","h","e","a","t"," ","p","r","o","t","e","i","n">>,
       <<"v","i","t","a","l"," ","w","h","e","a","t"," ","g","l","u","t","e","n">>,
       <<"m","o","d","i","f","i","e","d"," ","w","h","e","a","t"," ","s","t","a","r","c","h">>>>,
     ingredientsToFlag |-> <<
       <<"n","a","t","u","r","a","l"," ","f","l","a","v","o","r","s">>,
       <<"m","o","d","i","f","i","e","d"," ","f","o","o","d"," ","s","t","a","r","c","h">>,
       <<"c","a","r","a","m","e","l"," ","c","o","l","o","r">>>>],
    [id |-> "vegan", label |-> "Vegan",
     ingredientsToAvoid |-> <<
       <<"m","i","l","k">>,
       <<"b","u","t","t","e","r">>,
       <<"c","h","e","e","s","e">>,
       <<"w","h","e","y">>,
       <<"c","a","s","e","i","n">>,
       <<"l","a","c","t","o","s","e">>,
       <<"e","g","g","s">>,
       <<"h","o","n","e","y">>,
       <<"g","e","l","a","t","i","n">>,
       <<"c","a","r","m","i","n","e">>,
       <<"s","h","e","l","l","a","c">>,
       <<"l","a","n","o","l","i","n">>>>,
     ingredientsToFlag |-> <<
       <<"n","a","t","u","r","a","l"," ","f","l","a","v","o","r","s">>,
       <<"v","i","t","a","m","i","n"," ","d","3">>,
       <<"l","a","c","t","i","c"," ","a","c","i","d">>>>],
    [id |-> "vegetarian", label |-> "Vegetarian",
     ingredientsToAvoid |-> <<
       <<"g","e","l","a","t","i","n">>,
       <<"c","a","r","m","i","n","e">>,
       <<"i","s","i","n","g","l","a","s","s">>,
       <<"a","n","c","h","o","v","i","e","s">>,
       <<"f","i","s","h"," ","s","a","u","c","e">>,
       <<"c","h","i","c","k","e","n"," ","f","a","t">>,
       <<"b","e","e","f"," ","t","a","l","l","o","w">>,
       <<"l","a","r","d">>>>,
     ingredientsToFlag |-> <<
       <<"n","a","t","u","r","a","l"," ","f","l","a","v","o","r","s">>,
       <<"e","n","z","y","m","e","s">>,
       <<"v","i","t","a","m","i","n"," ","d","3">>>>],
    [id |-> "diabetic", label |-> "Diabetic-Friendly",
     ingredientsToAvoid |-> <<
       <<"h","i","g","h"," ","f","r","u","c","t","o","s","e"," ","c","o","r","n"," ","s","y","r","u","p">>,
       <<"c","o","r","n"," ","s","y","r","u","p">>,
       <<"d","e","x","t","r","o","s","e">>,
       <<"m","a","l","t","o","s","e">>,
       <<"s","u","c","r","o","s","e">>,
       <<"f","r","u","c","t","o","s","e">>,
       <<"g","l","u","c","o","s","e"," ","s","y","r","u","p">>>>,
     ingredientsToFlag |-> <<
       <<"s","u","g","a","r">>,
       <<"o","r","g","a","n","i","c"," ","c","a","n","e"," ","s","u","g","a","r">>,
       <<"b","r","o","w","n"," ","s","u","g","a","r">>,
       <<"h","o","n","e","y">>,
       <<"a","g","a","v","e">>>>],
    [id |-> "keto", label |-> "Keto",
     ingredientsToAvoid |-> <<
       <<"s","u","g","a","r">>,
       <<"h","i","g","h"," ","f","r","u","c","t","o","s","e"," ","c","o","r","n"," ","s","y","r","u","p">>,
       <<"w","h","e","a","t"," ","f","l","o","u","r">>,
       <<"r","i","c","e">>,
       <<"p","o","t","a","t","o"," ","s","t","a","r","c","h">>,
       <<"c","o","r","n"," ","s","t","a","r","c","h">>,
       <<"m","a","l","t","o","d","e","x","t","r","i","n">>,
       <<"d","e","x","t","r","o","s","e">>>>,
     ingredientsToFlag |-> <<
       <<"n","a","t","u","r","a","l"," ","f","l","a","v","o","r","s">>,
       <<"m","o","d","i","f","i","e","d"," ","f","o","o","d"," ","s","t","a","r","c","h">>,
       <<"t","a","p","i","o","c","a"," ","s","t","a","r","c","h">>>>],
    [id |-> "paleo", label |-> "Paleo",
     ingredientsToAvoid |-> <<
       <<"w","h","e","a","t"," ","f","l","o","u","r">>,
       <<"c","o","r","n"," ","s","y","r","u","p">>,
       <<"s","o","y"," ","l","e","c","i","t","h","i","n">>,
       <<"c","a","r","r","a","g","e","e","n","a","n">>,
       <<"x","a","n","t","h","a","n"," ","g","u","m">>,
       <<"a","r","t","i","f","i","c","i","a","l"," ","c","o","l","o","r","s">>,
       <<"a","r","t","i","f","i","c","i","a","l"," ","f","l","a","v","o","r","s">>>>,
     ingredientsToFlag |-> <<
       <<"n","a","t","u","r","a","l"," ","f","l","a","v","o","r","s">>,
       <<"g","u","a","r"," ","g","u","m">>,
       <<"l","o","c","u","s","t"," ","b","e","a","n"," ","g","u","m">>>>],
    [id |-> "low-sodium", label |-> "Low Sodium",
     ingredientsToAvoid |-> <<
       <<"s","o","d","i","u","m"," ","c","h","l","o","r","i","d","e">>,
       <<"m","o","n","o","s","o","d","i","u","m"," ","g","l","u","t","a","m","a","t","e">>,
       <<"s","o","d","i","u","m"," ","n","i","t","r","a","t","e">>,
       <<"s","o","d","i","u","m"," ","n","i","t","r","i","t","e">>,
       <<"s","o","d","i","u","m"," ","p","h","o","s","p","h","a","t","e">>>>,
     ingredientsToFlag |-> <<
       <<"s","a","l","t">>,
       <<"s","o","d","i","u","m"," ","b","e","n","z","o","a","t","e">>,
       <<"s","o","d","i","u","m"," ","c","i","t","r","a","t","e">>,
       <<"b","a","k","i","n","g"," ","s","o","d","a">>>>],
    [id |-> "dairy-free", label |-> "Dairy-Free",
     ingredientsToAvoid |-> <<
       <<"m","i","l","k">>,
       <<"b","u","t","t","e","r">>,
       <<"c","h","e","e","s","e">>,
       <<"c","r","e","a","m">>,
       <<"w","h","e","y">>,
       <<"c","a","s","e","i","n">>,
       <<"l","a","c","t","o","s","e">>,
       <<"m","i","l","k"," ","p","o","w","d","e","r">>,
       <<"b","u","t","t","e","r","m","i","l","k">>>>,
     ingredientsToFlag |-> <<
       <<"n","a","t","u","r","a","l"," ","f","l","a","v","o","r","s">>,
       <<"c","a","r","a","m","e","l"," ","c","o","l","o","r">>,
       <<"l","a","c","t","i","c"," ","a","c","i","d">>>>],
    [id |-> "nut-free", label |-> "Nut-Free",
     ingredientsToAvoid |-> <<
       <<"p","e","a","n","u","t","s">>,
       <<"t","r","e","e"," ","n","u","t","s">>,
       <<"a","l","m","o","n","d","s">>,
       <<"w","a","l","n","u","t","s">>,
       <<"p","e","c","a","n","s">>,
       <<"c","a","s","h","e","w","s">>,
       <<"p","i","s","t","a","c","h","i","o","s">>,
       <<"h","a","z","e","l","n","u","t","s">>,
       <<"p","e","a","n","u","t"," ","o","i","l">>>>,
     ingredientsToFlag |-> <<
       <<"n","a","t","u","r","a","l"," ","f","l","a","v","o","r","s">>,
       <<"n","a","t","u","r","a","l"," ","o","i","l","s">>>>],
    [id |-> "soy-free", label |-> "Soy-Free",
     ingredientsToAvoid |-> <<
       <<"s","o","y">>,
       <<"s","o","y"," ","l","e","c","i","t","h","i","n">>,
       <<"s","o","y","b","e","a","n"," ","o","i","l">>,
       <<"s","o","y"," ","p","r","o","t","e","i","n">>,
       <<"s","o","y"," ","f","l","o","u","r">>,
       <<"t","o","f","u">>,
       <<"t","e","m","p","e","h">>,
       <<"m","i","s","o">>>>,
     ingredientsToFlag |-> <<
       <<"n","a","t","u","r","a","l"," ","f","l","a","v","o","r","s">>,
       <<"v","e","g","e","t","a","b","l","e"," ","o","i","l">>,
       <<"v","i","t","a","m","i","n"," ","e">>>>]
  >>

(***************************************************************************)
(* DietaryProfileService.  A stored profile is                             *)
(*   [active |-> the ids of the preferences whose isActive is true,        *)
(*    customAvoidances |-> the list of custom avoidances];                 *)
(* its preference list is the catalog DEFAULT_PREFERENCES in catalog       *)
(* order.                                                                  *)
(***************************************************************************)
PreferenceIds == {DEFAULT_PREFERENCES[i].id : i \in 1..Len(DEFAULT_PREFERENCES)}

\* createDefaultProfile(): every preference inactive, no custom avoidance.
createDefaultProfile == [active |-> {}, customAvoidances |-> <<>>]

\* getActivePreferences() on the profile it reads
getActivePreferences(dietaryProfile) ==
  SelectSeq(DEFAULT_PREFERENCES, LAMBDA pref : pref.id \in dietaryProfile.active)

\* The test "normalizedIngredient.includes(x) || x.includes(normalizedIngredient)"
MatchesEitherWay(normalizedIngredient, x) ==
  LET lower == toLowerCase(x)
  IN  includes(normalizedIngredient, lower) \/ includes(lower, normalizedIngredient)

RECURSIVE Flatten(_)
Flatten(seqs) == IF seqs = <<>> THEN <<>> ELSE Head(seqs) \o Flatten(Tail(seqs))

\* A variant of checkIngredientRestriction that returns the first reason only.
checkRestrictionFirstReason(activePreferences, dietaryProfile, ingredientName) ==
  LET normalizedIngredient == trim(toLowerCase(ingredientName))
      avoidsIngredient(preference) ==
        \E k \in 1..Len(preference.ingredientsToAvoid) :
          MatchesEitherWay(normalizedIngredient, preference.ingredientsToAvoid[k])
      flagsIngredient(preference) ==
        \E k \in 1..Len(preference.ingredientsToFlag) :
          MatchesEitherWay(normalizedIngredient, preference.ingredientsToFlag[k])
      matchesCustom(avoidance) ==
        MatchesEitherWay(normalizedIngredient, avoidance.ingredientName)
      custom == dietaryProfile.customAvoidances
  IN  [shouldAvoid |->
         \/ \E i \in 1..Len(activePreferences) : avoidsIngredient(activePreferences[i])
         \/ \E i \in 1..Len(custom) :
              matchesCustom(custom[i]) /\ custom[i].severity = "avoid",
       shouldFlag |->
         \/ \E i \in 1..Len(activePreferences) :
              /\ ~avoidsIngredient(activePreferences[i])
              /\ flagsIngredient(activePreferences[i])
         \/ \E i \in 1..Len(custom) :
              matchesCustom(custom[i]) /\ custom[i].severity # "avoid",
       reasons |->
         LET all ==
               Flatten([i \in 1..Len(activePreferences) |->
                          IF avoidsIngredient(activePreferences[i])
                          THEN << <<activePreferences[i].label, "description">> >>
                          ELSE IF flagsIngredient(activePreferences[i])
                          THEN << <<activePreferences[i].label,
                                    "May contain restricted ingredients">> >>
                          ELSE <<>>])
               \o
               Flatten([i \in 1..Len(custom) |->
                          IF matchesCustom(custom[i])
                          THEN << <<"Custom restriction", custom[i].reason>> >>
                          ELSE <<>>])
         IN  IF all = <<>> THEN <<>> ELSE <<all[1]>>]

\* checkIngredientRestriction(ingredientName), given the two values it reads:
\* activePreferences (through getActivePreferences) and then the profile.
checkIngredientRestriction(activePreferences, dietaryProfile, ingredientName) ==
  LET normalizedIngredient == trim(toLowerCase(ingredientName))
      avoidsIngredient(preference) ==
        \E k \in 1..Len(preference.ingredientsToAvoid) :
          MatchesEitherWay(normalizedIngredient, preference.ingredientsToAvoid[k])
      flagsIngredient(preference) ==
        \E k \in 1..Len(preference.ingredientsToFlag) :
          MatchesEitherWay(normalizedIngredient, preference.ingredientsToFlag[k])
      matchesCustom(avoidance) ==
        MatchesEitherWay(normalizedIngredient, avoidance.ingredientName)
      custom == dietaryProfile.customAvoidances
  IN  [shouldAvoid |->
         \/ \E i \in 1..Len(activePreferences) : avoidsIngredient(activePreferences[i])
         \/ \E i \in 1..Len(custom) :
              matchesCustom(custom[i]) /\ custom[i].severity = "avoid",
       shouldFlag |->
         \/ \E i \in 1..Len(activePreferences) :
              /\ ~avoidsIngredient(activePreferences[i])
              /\ flagsIngredient(activePreferences[i])
         \/ \E i \in 1..Len(custom) :
              matchesCustom(custom[i]) /\ custom[i].severity # "avoid",
       reasons |->
         Flatten([i \in 1..Len(activePreferences) |->
                    IF avoidsIngredient(activePreferences[i])
                    THEN << <<activePreferences[i].label, "description">> >>
                    ELSE IF flagsIngredient(activePreferences[i])
                    THEN << <<activePreferences[i].label,
                              "May contain restricted ingredients">> >>
                    ELSE <<>>])
         \o
         Flatten([i \in 1..Len(custom) |->
                    IF matchesCustom(custom[i])
                    THEN << <<"Custom restriction", custom[i].reason>> >>
                    ELSE <<>>])]

(***************************************************************************)
(* PersonalizationService.                                                 *)
(***************************************************************************)
\* A variant of personalizeIngredient that tests shouldFlag before shouldAvoid.
personalizeFlagBeforeAvoid(ingredient, restriction) ==
  LET isAvoid == restriction.shouldAvoid /\ ~(restriction.shouldFlag /\ ingredient.rating = "safe")
      isFlag == restriction.shouldFlag /\ ingredient.rating = "safe"
      personalizedRating ==
        IF isAvoid THEN "avoid" ELSE IF isFlag THEN "caution" ELSE ingredient.rating
      isPersonalized == isAvoid \/ isFlag
  IN  [name |-> ingredient.name,
       position |-> ingredient.position,
       confidence |-> ingredient.confidence,
       originalRating |-> ingredient.rating,
       personalizedRating |-> personalizedRating,
       personalizationReasons |-> IF isPersonalized THEN restriction.reasons ELSE <<>>,
       isPersonalized |-> isPersonalized,
       rating |-> personalizedRating,
       explanation |-> ingredient.explanation]

\* A variant of personalizeIngredient that flags whatever the base rating is.
personalizeFlagAnyRating(ingredient, restriction) ==
  LET isAvoid == restriction.shouldAvoid
      isFlag == ~restriction.shouldAvoid /\ restriction.shouldFlag
      personalizedRating ==
        IF isAvoid THEN "avoid" ELSE IF isFlag THEN "caution" ELSE ingredient.rating
      isPersonalized == isAvoid \/ isFlag
  IN  [name |-> ingredient.name,
       position |-> ingredient.position,
       confidence |-> ingredient.confidence,
       originalRating |-> ingredient.rating,
       personalizedRating |-> personalizedRating,
       personalizationReasons |-> IF isPersonalized THEN restriction.reasons ELSE <<>>,
       isPersonalized |-> isPersonalized,
       rating |-> personalizedRating,
       explanation |-> ingredient.explanation]

\* A variant of personalizeIngredient that copies the reasons in every case.
personalizeAlwaysCopiesReasons(ingredient, restriction) ==
  LET isAvoid == restriction.shouldAvoid
      isFlag == ~restriction.shouldAvoid /\ restriction.shouldFlag /\ ingredient.rating = "safe"
      personalizedRating ==
        IF isAvoid THEN "avoid" ELSE IF isFlag THEN "caution" ELSE ingredient.rating
      isPersonalized == isAvoid \/ isFlag
  IN  [name |-> ingredient.name,
       position |-> ingredient.position,
       confidence |-> ingredient.confidence,
       originalRating |-> ingredient.rating,
       personalizedRating |-> personalizedRating,
       personalizationReasons |-> restriction.reasons,
       isPersonalized |-> isPersonalized,
       rating |-> personalizedRating,
       explanation |-> ingredient.explanation]

\* A variant of personalizeIngredient that copies the reasons of an avoid only.
personalizeFlagWithoutReasons(ingredient, restriction) ==
  LET isAvoid == restriction.shouldAvoid
      isFlag == ~restriction.shouldAvoid /\ restriction.shouldFlag /\ ingredient.rating = "safe"
      personalizedRating ==
        IF isAvoid THEN "avoid" ELSE IF isFlag THEN "caution" ELSE ingredient.rating
      isPersonalized == isAvoid \/ isFlag
  IN  [name |-> ingredient.name,
       position |-> ingredient.position,
       confidence |-> ingredient.confidence,
       originalRating |-> ingredient.rating,
       personalizedRating |-> personalizedRating,
       personalizationReasons |-> IF isAvoid THEN restriction.reasons ELSE <<>>,
       isPersonalized |-> isPersonalized,
       rating |-> personalizedRating,
       explanation |-> ingredient.explanation]

\* personalizeIngredient(ingredient, dietaryProfile), given the restriction
\* checkIngredientRestriction returned for ingredient.name.  The parameter
\* dietaryProfile is not read.
personalizeIngredient(ingredient, restriction) ==
  LET isAvoid == restriction.shouldAvoid
      isFlag == ~restriction.shouldAvoid /\ restriction.shouldFlag
                  /\ ingredient.rating = "safe"
      personalizedRating ==
        IF isAvoid THEN "avoid" ELSE IF isFlag THEN "caution" ELSE ingredient.rating
      isPersonalized == isAvoid \/ isFlag
  IN  [name |-> ingredient.name,
       position |-> ingredient.position,
       confidence |-> ingredient.confidence,
       originalRating |-> ingredient.rating,
       personalizedRating |-> personalizedRating,
       personalizationReasons |->
         IF isPersonalized THEN restriction.reasons ELSE <<>>,
       isPersonalized |-> isPersonalized,
       rating |-> personalizedRating,
       explanation |->
         IF isPersonalized THEN <<ingredient.explanation, restriction.reasons>>
         ELSE ingredient.explanation]

\* ratings.filter(r => r === rating).length
CountRating(ratings, rating) ==
  Cardinality({i \in 1..Len(ratings) : ratings[i] = rating})

\* A variant of calculateSafetyScore that weighs avoid above caution.
scoreAvoidAboveCaution(ratings) ==
  IF Len(ratings) = 0 THEN 100
  ELSE MathRound((CountRating(ratings, "safe") * 100)
                   + (CountRating(ratings, "caution") * 20)
                   + (CountRating(ratings, "avoid") * 60), Len(ratings))

\* calculateSafetyScore(ratings)
calculateSafetyScore(ratings) ==
  IF Len(ratings) = 0 THEN 100
  ELSE LET safeCount == CountRating(ratings, "safe")
           cautionCount == CountRating(ratings, "caution")
           avoidCount == CountRating(ratings, "avoid")
           total == Len(ratings)
       IN  MathRound((safeCount * 100) + (cautionCount * 60) + (avoidCount * 20),
                     total)

\* The ratings of a list of analyses: ingredients.map(i => i.rating)
RatingsOf(analyses) == [i \in 1..Len(analyses) |-> analyses[i].rating]

(***************************************************************************)
(* IngredientService.analyzeIngredients, in its two implementations.       *)
(***************************************************************************)
\* Math.round(0 / 0): the score of services/ingredientService.ts for an
\* empty list is NaN, written as a number outside 0..100.
NaN == -1

\* analyzeIngredients(ingredients) of services/ingredientService.ts
analyzeIngredients(ingredients) ==
  LET analyses == [i \in 1..Len(ingredients) |->
                     analyzeIngredient(ingredients[i], i)]
      ratings == RatingsOf(analyses)
      safeCount == CountRating(ratings, "safe")
      cautionCount == CountRating(ratings, "caution")
      avoidCount == CountRating(ratings, "avoid")
      totalIngredients == Len(ingredients)
  IN  [ingredients |-> analyses,
       overallSafetyScore |->
         IF totalIngredients = 0 THEN NaN
         ELSE MathRound((safeCount * 100) + (cautionCount * 60) + (avoidCount * 20),
                        totalIngredients),
       summary |-> [safe |-> safeCount, caution |-> cautionCount,
                    avoid |-> avoidCount]]

\* The analyses the AI-enhanced analyzeIngredients hands to
\* personalizeAnalysis: the AI batch, then analyzeIngredient per candidate.
baseAnalysesAI(ingredients) ==
  LET aiAnalysis == analyzeIngredientsBatch(ingredients)
  IN  [i \in 1..Len(ingredients) |->
         analyzeIngredientAI(ingredients[i], i, aiAnalysis[i])]

\* A variant of the result below that counts the summary over the original
\* ratings instead of the personalized ones.
summaryOverOriginalRatings(personalizedIngredients) ==
  LET ratings == [i \in 1..Len(personalizedIngredients) |->
                    personalizedIngredients[i].originalRating]
  IN  [ingredients |-> personalizedIngredients,
       overallSafetyScore |->
         calculateSafetyScore([i \in 1..Len(personalizedIngredients) |->
                                 personalizedIngredients[i].personalizedRating]),
       summary |-> [safe |-> CountRating(ratings, "safe"),
                    caution |-> CountRating(ratings, "caution"),
                    avoid |-> CountRating(ratings, "avoid")]]

\* The AnalysisResult the AI-enhanced analyzeIngredients builds from
\* personalizedResult.ingredients.
personalizedAnalysisResult(personalizedIngredients) ==
  LET ratings == RatingsOf(personalizedIngredients)
  IN  [ingredients |-> personalizedIngredients,
       overallSafetyScore |->
         calculateSafetyScore([i \in 1..Len(personalizedIngredients) |->
                                 personalizedIngredients[i].personalizedRating]),
       summary |-> [safe |-> CountRating(ratings, "safe"),
                    caution |-> CountRating(ratings, "caution"),
                    avoid |-> CountRating(ratings, "avoid")]]

\* analyzeIngredients(ingredients) of the AI-enhanced IngredientService when
\* no profile edit interleaves: every read returns the same profile.
analyzeIngredientsAI(ingredients, dietaryProfile) ==
  LET analyses == baseAnalysesAI(ingredients)
  IN  personalizedAnalysisResult(
        [i \in 1..Len(analyses) |->
           personalizeIngredient(
             analyses[i],
             checkIngredientRestriction(getActivePreferences(dietaryProfile),
                                        dietaryProfile, analyses[i].name))])

(***************************************************************************)
(* Inputs of the model.                                                    *)
(***************************************************************************)
Water == <<"W","a","t","e","r">>
Whey == <<"W","h","e","y">>
SodiumBenzoate == <<"S","o","d","i","u","m"," ","B","e","n","z","o","a","t","e">>

\* The candidate ingredients analyzeIngredients is called with.
IngredientNames == {Water, Whey, SodiumBenzoate}

\* The candidate lists of length at most n.
RECURSIVE ListsUpTo(_)
ListsUpTo(n) ==
  IF n = 0 THEN {<<>>}
  ELSE LET shorter == ListsUpTo(n - 1)
       IN  shorter \cup {Append(l, x) : l \in {m \in shorter : Len(m) = n - 1},
                                        x \in IngredientNames}

\* The candidate lists processIngredientsFromText derives from the text of
\* a scanned label.
CandidateLists == {<<>>, <<Water, Whey>>}

\* The candidate lists derived from the mock texts of simulateOCR, each of
\* which carries an ingredient list: of the fourth text, "INGREDIENTS: Water,
\* Sugar, ..., Sodium Benzoate (Preservative), ...", two candidates are kept,
\* the second under the name of the database entry it resolves to.
MockLists == {<<Water, SodiumBenzoate>>}

\* The two implementations of OCRService.extractTextFromImage and of
\* IngredientService.analyzeIngredients found in the repository.
OcrImpls == {"mockFallback", "edgeFunction"}
IngredientImpls == {"database", "aiPersonalized"}

\* The sessions: generateSessionId gives every processScan call its own id.
\* "A" names the call that is started first.
Scans == {"A", "B"}

\* Error messages: the OCR provider's, the prefix extractTextFromImage puts
\* before it, and the one of a failed AsyncStorage.setItem.
ProviderError == <<"OCR processing failed">>
ExtractPrefix == <<"Failed to extract text from image: ">>
StorageError == <<"setItem failed">>

(***************************************************************************)
(* State.                                                                  *)
(***************************************************************************)
VARIABLES
  build,      \* the implementations bound to ./ocrService and ./ingredientService
  history,    \* AsyncStorage item 'scan_history': the stored sessions
  session,    \* the session object of each processScan call
  scan,       \* each processScan call: where it stands and its locals
  faults,     \* storage operations that have failed so far
  profile,    \* AsyncStorage item 'dietary_profile'
  an,         \* the analyzeIngredients call: where it stands and its locals
  ed,         \* the profile edits in flight
  edits,      \* profile edits begun so far
  call        \* a call of one function of the services: its arguments and result

vars == <<build, history, session, scan, faults, profile, an, ed, edits, call>>

scanVars == <<history, session, scan, faults>>
analysisVars == <<an, ed, edits>>

(***************************************************************************)
(* ScanService.                                                            *)
(***************************************************************************)
\* "Keep only last 50 scans"
HISTORY_LIMIT == 50

\* A session object that does not exist yet.
NoSession(s) ==
  [id |-> s, status |-> "none", ocrResult |-> <<>>, analysisResult |-> <<>>,
   errorMessage |-> <<>>]

\* The session processScan creates.
NewSession(s) == [NoSession(s) EXCEPT !.status = "processing"]

\* history.findIndex(s => s.id === id) >= 0
HasSession(h, id) == \E i \in 1..Len(h) : h[i].id = id

\* history.findIndex(s => s.id === id), 1-based
IndexOfSession(h, id) ==
  CHOOSE i \in 1..Len(h) : h[i].id = id /\ \A j \in 1..(i - 1) : h[j].id # id

\* history.slice(0, 50)
TrimHistory(h) == IF Len(h) > HISTORY_LIMIT THEN SubSeq(h, 1, HISTORY_LIMIT) ELSE h

\* saveScanSession that puts every session at the front, stored or not.
saveAtFront(h, sess) == TrimHistory(<<sess>> \o h)

\* saveScanSession(session), from the history it read to the value it
\* hands to AsyncStorage.setItem.
saveScanSession(h, sess) ==
  TrimHistory(IF HasSession(h, sess.id)
              THEN [h EXCEPT ![IndexOfSession(h, sess.id)] = sess]
              ELSE <<sess>> \o h)

\* analyzeIngredients of the implementation the build binds.
analyzeIngredientsWith(impl, ingredients, prof) ==
  IF impl = "database" THEN analyzeIngredients(ingredients)
  ELSE analyzeIngredientsAI(ingredients, prof)

\* A processScan call that has started and has neither returned nor thrown.
InFlight(pc) == pc \notin {"idle", "returned", "thrown"}

\* processScan, lines 38-51: create the session and call saveScanSession.
StartScan(s) ==
  /\ scan[s].pc = "idle"
  /\ s = "A" \/ scan["A"].pc # "idle"
  /\ session' = [session EXCEPT ![s] = NewSession(s)]
  /\ scan' = [scan EXCEPT ![s].pc = "read", ![s].step = 1,
                          ![s].supersedes = {t \in Scans : InFlight(scan[t].pc)}]
  /\ UNCHANGED <<build, call, history, faults, profile, analysisVars>>

\* saveScanSession: getScanHistory returns the stored history, and the new
\* history is built and serialized.
SaveReadHistory(s) ==
  /\ scan[s].pc = "read"
  /\ scan' = [scan EXCEPT ![s].pc = "write",
                          ![s].trimmedHistory = saveScanSession(history, session[s])]
  /\ UNCHANGED <<build, call, history, session, faults, profile, analysisVars>>

\* saveScanSession: AsyncStorage.getItem fails, getScanHistory catches the
\* error and returns [].
SaveReadFails(s) ==
  /\ scan[s].pc = "read"
  /\ faults < MaxFaults
  /\ faults' = faults + 1
  /\ scan' = [scan EXCEPT ![s].pc = "write",
                          ![s].trimmedHistory = saveScanSession(<<>>, session[s])]
  /\ UNCHANGED <<build, call, history, session, profile, analysisVars>>

\* Where processScan goes on after its step-th saveScanSession returned.
AfterSave(step) ==
  CASE step = 1 -> "ocr"
    [] step = 2 -> "analyze"
    [] step = 3 -> "returned"
    [] OTHER -> "thrown"

\* saveScanSession: AsyncStorage.setItem stores the new history.
SaveWriteHistory(s) ==
  /\ scan[s].pc = "write"
  /\ history' = scan[s].trimmedHistory
  /\ scan' = [scan EXCEPT ![s].pc = AfterSave(scan[s].step),
                          ![s].writes = @ + 1,
                          ![s].thrown = IF scan[s].step = 4 THEN scan[s].error
                                        ELSE <<>>]
  /\ UNCHANGED <<build, call, session, faults, profile, analysisVars>>

\* The catch block of processScan, lines 83-89, for error: the session is
\* marked failed and saved.
CatchError(s, error, locals) ==
  /\ session' = [session EXCEPT ![s].status = "failed",
                                ![s].errorMessage = error]
  /\ scan' = [scan EXCEPT ![s] = [locals EXCEPT !.pc = "read", !.step = 4,
                                                !.error = error]]

\* saveScanSession: AsyncStorage.setItem fails and the error is rethrown:
\* into the catch block of processScan, or, from the save of the catch
\* block itself, to the caller.
SaveWriteFails(s) ==
  /\ scan[s].pc = "write"
  /\ faults < MaxFaults
  /\ faults' = faults + 1
  /\ IF scan[s].step = 4
     THEN /\ scan' = [scan EXCEPT ![s].pc = "thrown", ![s].thrown = StorageError]
          /\ UNCHANGED session
     ELSE CatchError(s, StorageError, scan[s])
  /\ UNCHANGED <<build, call, history, profile, analysisVars>>

\* processScan, lines 55-60: the OCR provider returns the text of the
\* label, and the candidate list is derived from it.
ExtractText(s) ==
  /\ scan[s].pc = "ocr"
  /\ \E ingredients \in CandidateLists :
       session' = [session EXCEPT ![s].ocrResult =
                     <<[source |-> "provider", ingredients |-> ingredients]>>]
  /\ scan' = [scan EXCEPT ![s].pc = "read", ![s].step = 2, ![s].provider = "ok"]
  /\ UNCHANGED <<build, call, history, faults, profile, analysisVars>>

\* extractTextFromImage of services/ocrService.ts when the provider fails:
\* the error is caught and simulateOCR's mock text is returned.
ExtractTextFallsBack(s) ==
  /\ scan[s].pc = "ocr"
  /\ build.ocr = "mockFallback"
  /\ \E ingredients \in MockLists :
       session' = [session EXCEPT ![s].ocrResult =
                     <<[source |-> "mock", ingredients |-> ingredients]>>]
  /\ scan' = [scan EXCEPT ![s].pc = "read", ![s].step = 2, ![s].provider = "failed"]
  /\ UNCHANGED <<build, call, history, faults, profile, analysisVars>>

\* extractTextFromImage of the edge-function OCRService when the provider
\* fails: it throws "Failed to extract text from image: <message>".
ExtractTextThrows(s) ==
  /\ scan[s].pc = "ocr"
  /\ build.ocr = "edgeFunction"
  /\ CatchError(s, ExtractPrefix \o ProviderError,
                [scan[s] EXCEPT !.provider = "failed"])
  /\ UNCHANGED <<build, call, history, faults, profile, analysisVars>>

\* The analyses of every candidate list a scan can hand over, under the
\* stored profile of the pipeline: analyzeIngredientsWith evaluated once.
ScanAnalyses ==
  {<<k, analyzeIngredientsWith(k[1], k[2], k[3])>> :
     k \in IngredientImpls \X (CandidateLists \cup MockLists) \X {createDefaultProfile}}

analysisOfScan(impl, ingredients, prof) ==
  (CHOOSE p \in ScanAnalyses : p[1] = <<impl, ingredients, prof>>)[2]

\* processScan with lines 66 and 67 apart: the session is marked completed
\* and the AnalysisResult is not attached.
AnalyzeScanMarksCompleted(s) ==
  /\ scan[s].pc = "analyze"
  /\ session' = [session EXCEPT ![s].status = "completed"]
  /\ scan' = [scan EXCEPT ![s].pc = "read", ![s].step = 3]
  /\ UNCHANGED <<build, call, history, faults, profile, analysisVars>>

\* processScan, lines 64-69: the candidates are analyzed, the result is
\* attached and the session is marked completed.
AnalyzeScan(s) ==
  /\ scan[s].pc = "analyze"
  /\ session' = [session EXCEPT
       ![s].analysisResult =
          <<analysisOfScan(build.ingredients,
                           session[s].ocrResult[1].ingredients, profile)>>,
       ![s].status = "completed"]
  /\ scan' = [scan EXCEPT ![s].pc = "read", ![s].step = 3]
  /\ UNCHANGED <<build, call, history, faults, profile, analysisVars>>

(***************************************************************************)
(* One call of analyzeIngredients, step by step, and the profile edits     *)
(* that may interleave with it at its awaits.                              *)
(***************************************************************************)
\* The analyzeIngredients call before it is made.
IdleAnalysis ==
  [pc |-> "idle", input |-> <<>>, analyses |-> <<>>, dietaryProfile |-> <<>>,
   activePreferences |-> <<>>, out |-> <<>>, judged |-> <<>>, result |-> <<>>]

\* The knowledge-base analyses of every candidate list, evaluated once:
\* analyzeIngredients of services/ingredientService.ts, and the analyses the
\* AI-enhanced analyzeIngredients hands to personalizeAnalysis.
DatabaseAnalyses ==
  {<<ingredients, analyzeIngredients(ingredients)>> : ingredients \in ListsUpTo(MaxLen)}

BaseAnalyses ==
  {<<ingredients, baseAnalysesAI(ingredients)>> : ingredients \in ListsUpTo(MaxLen)}

analysisOfList(table, ingredients) ==
  (CHOOSE p \in table : p[1] = ingredients)[2]

\* analyzeIngredients of services/ingredientService.ts: it reads no shared
\* state, so the call is one step.
AnalyzeDatabase ==
  /\ an.pc = "idle"
  /\ build.ingredients = "database"
  /\ \E ingredients \in ListsUpTo(MaxLen) :
       an' = [an EXCEPT !.pc = "done", !.input = ingredients,
                        !.result = <<analysisOfList(DatabaseAnalyses, ingredients)>>]
  /\ UNCHANGED <<build, call, scanVars, profile, ed, edits>>

\* The AI-enhanced analyzeIngredients, lines 322-334: the AI batch and the
\* per-candidate analyses, then the call of personalizeAnalysis.
AnalyzeAI ==
  /\ an.pc = "idle"
  /\ build.ingredients = "aiPersonalized"
  /\ \E ingredients \in ListsUpTo(MaxLen) :
       an' = [an EXCEPT !.pc = "profile", !.input = ingredients,
                        !.analyses = analysisOfList(BaseAnalyses, ingredients)]
  /\ UNCHANGED <<build, call, scanVars, profile, ed, edits>>

\* personalizeAnalysis, line 38: getDietaryProfile returns the stored
\* profile.  With no ingredient to personalize the result is built at once.
PersonalizeReadProfile ==
  /\ an.pc = "profile"
  /\ an' = IF an.analyses = <<>>
           THEN [an EXCEPT !.pc = "done", !.dietaryProfile = <<profile>>,
                           !.result = <<personalizedAnalysisResult(<<>>)>>]
           ELSE [an EXCEPT !.pc = "preferences", !.dietaryProfile = <<profile>>]
  /\ UNCHANGED <<build, call, scanVars, profile, ed, edits>>

\* checkIngredientRestriction with the active preferences taken from the
\* profile personalizeAnalysis has read, not from the store.
CheckCachedPreferences ==
  /\ an.pc = "preferences"
  /\ an' = [an EXCEPT !.pc = "custom",
                      !.activePreferences = getActivePreferences(an.dietaryProfile[1])]
  /\ UNCHANGED <<build, call, scanVars, profile, ed, edits>>

\* checkIngredientRestriction, line 304: getActivePreferences reads the
\* stored profile.
CheckReadPreferences ==
  /\ an.pc = "preferences"
  /\ an' = [an EXCEPT !.pc = "custom",
                      !.activePreferences = getActivePreferences(profile)]
  /\ UNCHANGED <<build, call, scanVars, profile, ed, edits>>

\* checkIngredientRestriction, line 305 on: getDietaryProfile reads the
\* stored profile again, the restriction is decided, personalizeIngredient
\* builds the personalized analysis, and personalizeAnalysis goes on to the
\* next ingredient or, after the last, analyzeIngredients builds its result.
CheckReadProfile ==
  /\ an.pc = "custom"
  /\ LET ingredient == an.analyses[Len(an.out) + 1]
         restriction == checkIngredientRestriction(an.activePreferences, profile,
                                                   ingredient.name)
         out == Append(an.out, personalizeIngredient(ingredient, restriction))
         judged == Append(an.judged,
                          [active |-> {an.activePreferences[i].id :
                                         i \in 1..Len(an.activePreferences)},
                           customAvoidances |-> profile.customAvoidances])
     IN  an' = IF Len(out) = Len(an.analyses)
               THEN [an EXCEPT !.pc = "done", !.out = out, !.judged = judged,
                               !.result = <<personalizedAnalysisResult(out)>>]
               ELSE [an EXCEPT !.pc = "preferences", !.out = out,
                               !.judged = judged]
  /\ UNCHANGED <<build, call, scanVars, profile, ed, edits>>

\* The users' edits: two may be in flight at once.
Editors == {"e1", "e2"}

\* The preferences the user toggles and the custom avoidances the user adds.
EditablePreferences == {"vegan"}
CustomNames == {<<"w","a","t","e","r">>}
Severities == {"avoid", "caution"}

IdleEdit == [pc |-> "idle", op |-> "none", updatedProfile |-> createDefaultProfile]

\* updateDietaryPreferences(preferences), lines 196-201: the stored profile
\* is read and the updated profile is built.
UpdatePreferencesRead(e) ==
  /\ ed[e].pc = "idle"
  /\ edits < MaxEdits
  /\ edits' = edits + 1
  /\ \E active \in SUBSET EditablePreferences :
       ed' = [ed EXCEPT ![e] = [pc |-> "write", op |-> "update",
                                updatedProfile |-> [profile EXCEPT !.active = active]]]
  /\ UNCHANGED <<build, call, scanVars, profile, an>>

\* addCustomAvoidance(ingredientName, reason, severity), lines 215-229
AddCustomAvoidanceRead(e) ==
  /\ ed[e].pc = "idle"
  /\ edits < MaxEdits
  /\ edits' = edits + 1
  /\ \E ingredientName \in CustomNames, severity \in Severities :
       LET newAvoidance == [id |-> edits + 1, ingredientName |-> trim(ingredientName),
                            reason |-> "reason", severity |-> severity]
       IN  ed' = [ed EXCEPT ![e] =
                    [pc |-> "write", op |-> "add",
                     updatedProfile |->
                       [profile EXCEPT !.customAvoidances = Append(@, newAvoidance)]]]
  /\ UNCHANGED <<build, call, scanVars, profile, an>>

\* removeCustomAvoidance(avoidanceId), lines 243-249
RemoveCustomAvoidanceRead(e) ==
  /\ ed[e].pc = "idle"
  /\ edits < MaxEdits
  /\ edits' = edits + 1
  /\ \E i \in 1..Len(profile.customAvoidances) :
       LET avoidanceId == profile.customAvoidances[i].id
       IN  ed' = [ed EXCEPT ![e] =
                    [pc |-> "write", op |-> "remove",
                     updatedProfile |->
                       [profile EXCEPT !.customAvoidances =
                          SelectSeq(@, LAMBDA a : a.id # avoidanceId)]]]
  /\ UNCHANGED <<build, call, scanVars, profile, an>>

\* The AsyncStorage.setItem that ends each of the three edits.
EditWrite(e) ==
  /\ ed[e].pc = "write"
  /\ profile' = ed[e].updatedProfile
  /\ ed' = [ed EXCEPT ![e] = IdleEdit]
  /\ UNCHANGED <<build, call, scanVars, an, edits>>

(***************************************************************************)
(* Specifications.                                                         *)
(***************************************************************************)
Builds == [ocr : OcrImpls, ingredients : IngredientImpls]

IdleScan ==
  [pc |-> "idle", step |-> 0, trimmedHistory |-> <<>>, provider |-> "none",
   error |-> <<>>, thrown |-> <<>>, writes |-> 0, supersedes |-> {}]

\* The profiles a scan or an analysis may find stored.
StoredProfiles ==
  {createDefaultProfile,
   [active |-> {"vegan"}, customAvoidances |-> <<>>],
   [active |-> {},
    customAvoidances |-> <<[id |-> 0, ingredientName |-> <<"w","a","t","e","r">>,
                            reason |-> "reason", severity |-> "caution"]>>]}

\* No function called yet.
NoCall == [op |-> "none", args |-> <<>>, result |-> <<>>]

\* The state common to every start: nothing stored, no call made.
Idle ==
  /\ call = NoCall
  /\ history = <<>>
  /\ session = [s \in Scans |-> NoSession(s)]
  /\ scan = [s \in Scans |-> IdleScan]
  /\ faults = 0
  /\ an = IdleAnalysis
  /\ ed = [e \in Editors |-> IdleEdit]
  /\ edits = 0

Init ==
  /\ build \in Builds
  /\ profile = createDefaultProfile
  /\ Idle

\* The scan pipeline: concurrent processScan calls on one history store.
Next ==
  \E s \in Scans :
    \/ StartScan(s)
    \/ SaveReadHistory(s)
    \/ SaveReadFails(s)
    \/ SaveWriteHistory(s)
    \/ SaveWriteFails(s)
    \/ ExtractText(s)
    \/ ExtractTextFallsBack(s)
    \/ ExtractTextThrows(s)
    \/ AnalyzeScan(s)

Spec == Init /\ [][Next]_vars

\* One analyzeIngredients call and the concurrent edits of the profile.
NextAnalysis ==
  \/ AnalyzeDatabase
  \/ AnalyzeAI
  \/ PersonalizeReadProfile
  \/ CheckReadPreferences
  \/ CheckReadProfile
  \/ \E e \in Editors :
       \/ UpdatePreferencesRead(e)
       \/ AddCustomAvoidanceRead(e)
       \/ RemoveCustomAvoidanceRead(e)
       \/ EditWrite(e)

\* analyzeIngredients does not call the OCR service.
InitAnalysis ==
  /\ build \in {b \in Builds : b.ocr = "edgeFunction"}
  /\ profile \in StoredProfiles
  /\ Idle

SpecAnalysis == InitAnalysis /\ [][NextAnalysis]_vars

(***************************************************************************)
(* The history store under processScan, deleteScanSession and              *)
(* clearScanHistory: one deleteScanSession call, kept in call from its     *)
(* read of the history to its end, beside the processScan calls.           *)
(***************************************************************************)
\* deleteScanSession(sessionId), lines 159-160: getScanHistory returns the
\* stored history, or [] when AsyncStorage.getItem fails, and the history
\* without the session is built.
DeleteRead ==
  /\ call.op = "none"
  /\ \E sessionId \in Scans \cup {"1"} :
       \/ /\ call' = [op |-> "deleteScanSession", args |-> <<sessionId>>,
                      result |-> <<SelectSeq(history,
                                             LAMBDA sess : sess.id # sessionId)>>]
          /\ UNCHANGED faults
       \/ /\ faults < MaxFaults
          /\ faults' = faults + 1
          /\ call' = [op |-> "deleteScanSession", args |-> <<sessionId>>,
                      result |-> <<<<>>>>]
  /\ UNCHANGED <<build, history, session, scan, profile, analysisVars>>

\* deleteScanSession, line 161: AsyncStorage.setItem stores the filtered
\* history and the call returns.
DeleteWrite ==
  /\ call.op = "deleteScanSession"
  /\ history' = call.result[1]
  /\ call' = [op |-> "deleted", args |-> call.args, result |-> <<>>]
  /\ UNCHANGED <<build, session, scan, faults, profile, analysisVars>>

\* clearScanHistory(): AsyncStorage.removeItem, after which getScanHistory
\* finds no item and returns [].
ClearScanHistory ==
  /\ history # <<>>
  /\ history' = <<>>
  /\ UNCHANGED <<build, call, session, scan, faults, profile, analysisVars>>

\* The store is empty or holds the records of HISTORY_LIMIT earlier scans.
InitHistory ==
  /\ build \in {b \in Builds : b.ingredients = "database"}
  /\ profile = createDefaultProfile
  /\ call = NoCall
  /\ history \in {<<>>,
                  [i \in 1..HISTORY_LIMIT |->
                     [NoSession(ToString(i)) EXCEPT
                        !.status = "failed",
                        !.errorMessage = ExtractPrefix \o ProviderError]]}
  /\ session = [s \in Scans |-> NoSession(s)]
  /\ scan = [s \in Scans |-> IdleScan]
  /\ faults = 0
  /\ an = IdleAnalysis
  /\ ed = [e \in Editors |-> IdleEdit]
  /\ edits = 0

\* The processScan calls run one at a time; the delete and the clears come
\* at any moment of them.
NextHistory ==
  \/ \E s \in Scans :
       \/ StartScan(s) /\ \A t \in Scans : ~InFlight(scan[t].pc)
       \/ SaveReadHistory(s)
       \/ SaveReadFails(s)
       \/ SaveWriteHistory(s)
       \/ SaveWriteFails(s)
       \/ ExtractText(s)
       \/ ExtractTextFallsBack(s)
       \/ ExtractTextThrows(s)
       \/ AnalyzeScan(s)
  \/ DeleteRead
  \/ DeleteWrite
  \/ ClearScanHistory

SpecHistory == InitHistory /\ [][NextHistory]_vars

(***************************************************************************)
(* Calls of single functions of the services, on inputs drawn from bounded *)
(* sets.                                                                   *)
(***************************************************************************)
\* SafetyRating
Ratings == {"safe", "caution", "avoid"}

\* The lists of ratings of length at most n.
RECURSIVE RatingLists(_)
RatingLists(n) ==
  IF n = 0 THEN {<<>>}
  ELSE LET shorter == RatingLists(n - 1)
       IN  shorter \cup {Append(l, r) : l \in {m \in shorter : Len(m) = n - 1},
                                        r \in Ratings}

\* The build that binds PersonalizationService: the AI-enhanced
\* IngredientService behind the edge-function OCRService.
PersonalizedBuild == [ocr |-> "edgeFunction", ingredients |-> "aiPersonalized"]

\* No scan, analysis or edit runs while single functions are called.
InitCalls ==
  /\ build = PersonalizedBuild
  /\ profile = createDefaultProfile
  /\ Idle

\* calculateSafetyScore(ratings) is called.
CallCalculateSafetyScore ==
  /\ call.op = "none"
  /\ \E ratings \in RatingLists(MaxRatings) :
       call' = [op |-> "calculateSafetyScore", args |-> <<ratings>>,
                result |-> <<calculateSafetyScore(ratings)>>]
  /\ UNCHANGED <<build, scanVars, profile, analysisVars>>

\* calculateSafetyScore is called again on the same ratings with the caution
\* at one index replaced by another rating.
CallCalculateSafetyScoreReplaced ==
  /\ call.op = "calculateSafetyScore"
  /\ LET ratings == call.args[1]
     IN  \E i \in 1..Len(ratings), rating \in Ratings \ {"caution"} :
           /\ ratings[i] = "caution"
           /\ call' = [op |-> "calculateSafetyScoreReplaced",
                       args |-> <<ratings, i, rating>>,
                       result |-> <<call.result[1],
                                    calculateSafetyScore([ratings EXCEPT ![i] = rating])>>]
  /\ UNCHANGED <<build, scanVars, profile, analysisVars>>

NextScore == CallCalculateSafetyScore \/ CallCalculateSafetyScoreReplaced

SpecScore == InitCalls /\ [][NextScore]_vars

\* The preferences switched on or off, the custom avoidances stored and the
\* ingredient names checked when checkIngredientRestriction is called.
CheckedPreferences == {"vegan", "dairy-free", "low-sodium"}

CheckedAvoidances ==
  {[ingredientName |-> <<"w","h","e","y">>, reason |-> "allergy", severity |-> "avoid"],
   [ingredientName |-> <<"w","h","e","y">>, reason |-> "taste", severity |-> "caution"],
   [ingredientName |-> <<"w","a","t","e","r">>, reason |-> "trial", severity |-> "caution"]}

\* The lists of custom avoidances of length at most n, each with its own id.
RECURSIVE AvoidanceLists(_)
AvoidanceLists(n) ==
  IF n = 0 THEN {<<>>}
  ELSE LET shorter == AvoidanceLists(n - 1)
       IN  shorter \cup
           {Append(l, [id |-> n, ingredientName |-> a.ingredientName,
                       reason |-> a.reason, severity |-> a.severity]) :
              l \in {m \in shorter : Len(m) = n - 1}, a \in CheckedAvoidances}

\* The profiles checkIngredientRestriction may find stored.
CheckedProfiles ==
  [active : SUBSET CheckedPreferences, customAvoidances : AvoidanceLists(MaxCustom)]

InitPersonalize ==
  /\ build = PersonalizedBuild
  /\ profile \in CheckedProfiles
  /\ Idle

\* checkIngredientRestriction(ingredientName) is called: both of its reads
\* return the stored profile.
CallCheckIngredientRestriction ==
  /\ call.op = "none"
  /\ \E ingredientName \in IngredientNames :
       call' = [op |-> "checkIngredientRestriction", args |-> <<ingredientName>>,
                result |-> <<checkIngredientRestriction(getActivePreferences(profile),
                                                        profile, ingredientName)>>]
  /\ UNCHANGED <<build, scanVars, profile, analysisVars>>

\* personalizeIngredient(ingredient, dietaryProfile) is called for an
\* analysis of the ingredient just checked: the restriction it awaits is the
\* one checkIngredientRestriction returned.
CallPersonalizeIngredient ==
  /\ call.op = "checkIngredientRestriction"
  /\ \E rating \in Ratings :
       LET ingredient == [name |-> call.args[1], position |-> 1, rating |-> rating,
                          confidence |-> 50, explanation |-> "explanation"]
           restriction == call.result[1]
       IN  call' = [op |-> "personalizeIngredient",
                    args |-> <<ingredient, restriction>>,
                    result |-> <<personalizeIngredient(ingredient, restriction)>>]
  /\ UNCHANGED <<build, scanVars, profile, analysisVars>>

NextPersonalize == CallCheckIngredientRestriction \/ CallPersonalizeIngredient

SpecPersonalize == InitPersonalize /\ [][NextPersonalize]_vars

(***************************************************************************)
(* Calls of the classifier: analyzeIngredients over lists of candidate     *)
(* names, under each build, with the default profile (no active            *)
(* preference, no custom avoidance).                                       *)
(***************************************************************************)
VitaminE == <<"V","i","t","a","m","i","n"," ","E">>
BlueDye == <<"B","l","u","e"," ","D","y","e">>
LemonSyrup == <<"L","e","m","o","n"," ","S","y","r","u","p">>
MalicAcid == <<"M","a","l","i","c"," ","A","c","i","d">>

\* The names the classifier is called with: entries of the database, names
\* that match an entry by similarity, and names that match none.
ClassifiedNames ==
  {Water, SodiumBenzoate, Whey, VitaminE, BlueDye, LemonSyrup, MalicAcid}

\* The longest list the classifier is called with.
MaxClassified == 2

RECURSIVE ClassifiedLists(_)
ClassifiedLists(n) ==
  IF n = 0 THEN {<<>>}
  ELSE LET shorter == ClassifiedLists(n - 1)
       IN  shorter \cup {Append(l, x) : l \in {m \in shorter : Len(m) = n - 1},
                                        x \in ClassifiedNames}

\* The database the IngredientService of implementation impl looks names up in.
DatabaseOf(impl) ==
  IF impl = "database" THEN ingredientDatabase ELSE ingredientDatabaseExt

\* The lookups of the classified names, by implementation.
ClassifiedInfos ==
  {<<impl, n, findIngredientInfo(DatabaseOf(impl), trim(toLowerCase(n)))>> :
     impl \in IngredientImpls, n \in ClassifiedNames}

InfoOf(impl, n) ==
  (CHOOSE t \in ClassifiedInfos : t[1] = impl /\ t[2] = n)[3]

\* The classified names that resolve to no entry: findIngredientInfo
\* returns null and, where the AI analysis is consulted, the table of
\* getEnhancedIngredientAnalysis has no exact or fuzzy match either.
UnresolvedNames ==
  {t \in IngredientImpls \X ClassifiedNames :
     /\ InfoOf(t[1], t[2]) = <<>>
     /\ t[1] = "aiPersonalized"
          => \A i \in 1..Len(knowledgeBase) :
               /\ knowledgeBase[i].key # toLowerCase(t[2])
               /\ ~isIngredientMatch(toLowerCase(t[2]), knowledgeBase[i].key)}

\* analyzeIngredients(ingredients) is called: the reads of the profile
\* return the stored profile.
CallAnalyzeIngredients ==
  /\ call.op = "none"
  /\ \E ingredients \in ClassifiedLists(MaxClassified) :
       call' = [op |-> "analyzeIngredients", args |-> <<ingredients>>,
                result |-> <<analyzeIngredientsWith(build.ingredients,
                                                    ingredients, profile)>>]
  /\ UNCHANGED <<build, scanVars, profile, analysisVars>>

InitClassify ==
  /\ build \in Builds
  /\ profile = createDefaultProfile
  /\ Idle

NextClassify == CallAnalyzeIngredients

SpecClassify == InitClassify /\ [][NextClassify]_vars

(***************************************************************************)
(* OCRService: from the text of a label to the candidate ingredients.      *)
(* A regular expression is computed as the length of its match at each     *)
(* position of the string it is applied to.                                *)
(***************************************************************************)
\* String.prototype.indexOf(sub): the index, counted from 0, of the first
\* occurrence of sub, and -1 when there is none.
indexOf(s, sub) ==
  LET at == {i \in 1..(Len(s) - Len(sub) + 1) : SubSeq(s, i, i + Len(sub) - 1) = sub}
  IN  IF at = {} THEN -1 ELSE Least(at) - 1

\* String.prototype.substring(start, end), indices counted from 0.
substring(s, start, end) == SubSeq(s, start + 1, end)

\* The length of the longest run of characters of class starting at
\* position i of s: a greedy \d*, \s* or [^.]*.
runAt(s, i, class) ==
  Least({n \in 0..(Len(s) + 1 - i) : i + n > Len(s) \/ s[i + n] \notin class})

\* w occurs at position i of s.
OccursAt(s, i, w) ==
  /\ i >= 1
  /\ i + Len(w) - 1 <= Len(s)
  /\ SubSeq(s, i, i + Len(w) - 1) = w

\* The length of the first of words to occur at position i of s, 0 when
\* none does: the alternation (w1|w2|...).
AlternativeAt(s, i, words) ==
  LET matching == {k \in 1..Len(words) : OccursAt(s, i, words[k])}
  IN  IF matching = {} THEN 0 ELSE Len(words[Least(matching)])

\* The length of the first of words to match at position i of s between
\* two word boundaries, 0 when none does: \b(w1|w2|...)\b.
WordAt(s, i, words) ==
  LET matching == {k \in 1..Len(words) : MatchesWordAt(s, i, words[k])}
  IN  IF matching = {} THEN 0 ELSE Len(words[Least(matching)])

\* s.replace(regex, ...) for a global regex: matchLen[i] is the length of
\* the match of regex at position i (0 for none) and replacement[i] is what
\* replaces it; the search resumes after each match.
replaceMatches(s, matchLen, replacement) ==
  LET matches == {i \in 1..Len(s) : matchLen[i] > 0}
      RECURSIVE from(_)
      from(i) ==
        LET next == {m \in matches : m >= i}
        IN  IF next = {} THEN SubSeq(s, i, Len(s))
            ELSE SubSeq(s, i, Least(next) - 1) \o replacement[Least(next)]
                   \o from(Least(next) + matchLen[Least(next)])
  IN  from(1)

\* s.replace(regex, '') for a global regex.
removeMatches(s, matchLen) ==
  replaceMatches(s, matchLen, [i \in 1..Len(s) |-> <<>>])

\* s.split(regex) for a regex that matches single characters: the pieces of
\* s between the positions in delimiters.
split(s, delimiters) ==
  LET RECURSIVE from(_)
      from(i) ==
        LET next == {d \in delimiters : d >= i}
        IN  IF next = {} THEN <<SubSeq(s, i, Len(s))>>
            ELSE <<SubSeq(s, i, Least(next) - 1)>> \o from(Least(next) + 1)
  IN  from(1)

\* array.filter(...): the elements of a at the indices in keep, in order.
filter(a, keep) ==
  LET RECURSIVE from(_)
      from(i) ==
        IF i > Len(a) THEN <<>>
        ELSE IF i \in keep THEN <<a[i]>> \o from(i + 1)
        ELSE from(i + 1)
  IN  from(1)

\* cleanIngredientText(text) of the edge-function OCRService
cleanIngredientText(text) ==
  LET \* .replace(/[\(\)\[\]]/g, '')
      RemoveBrackets(s) ==
        removeMatches(s, [i \in 1..Len(s) |->
                            IF s[i] \in {"(", ")", "[", "]"} THEN 1 ELSE 0])
      \* .replace(/\b(g|mg|mcg|iu|kcal|kj|oz|lb|ml|l)\b/gi, '')
      RemoveUnits(s) ==
        LET lower == toLowerCase(s)
        IN  removeMatches(s, [i \in 1..Len(s) |->
                                WordAt(lower, i,
                                       << <<"g">>, <<"m","g">>, <<"m","c","g">>, <<"i","u">>, <<"k","c","a","l">>, <<"k","j">>, <<"o","z">>,
                                          <<"l","b">>, <<"m","l">>, <<"l">> >>)])
      \* .replace(/\d+(\.\d+)?%?/g, '')
      RemoveNumbers(s) ==
        LET numberAt(i) ==
              LET whole == runAt(s, i, Digits)
                  fraction ==
                    IF /\ OccursAt(s, i + whole, <<".">>)
                       /\ runAt(s, i + whole + 1, Digits) > 0
                    THEN 1 + runAt(s, i + whole + 1, Digits) ELSE 0
                  percent == IF OccursAt(s, i + whole + fraction, <<"%">>) THEN 1 ELSE 0
              IN  IF whole = 0 THEN 0 ELSE whole + fraction + percent
        IN  removeMatches(s, [i \in 1..Len(s) |-> numberAt(i)])
      \* .replace(/[\*\+\-–—]/g, '')
      RemoveBullets(s) ==
        removeMatches(s, [i \in 1..Len(s) |->
                            IF s[i] \in {"*", "+", "-", "\\u2013", "\\u2014"}
                            THEN 1 ELSE 0])
      \* .replace(/\b(and|or|with|contains|may contain)\b/gi, '')
      RemoveConnecting(s) ==
        LET lower == toLowerCase(s)
        IN  removeMatches(s, [i \in 1..Len(s) |->
                                WordAt(lower, i,
                                       << <<"a","n","d">>, <<"o","r">>, <<"w","i","t","h">>, <<"c","o","n","t","a","i","n","s">>,
                                          <<"m","a","y"," ","c","o","n","t","a","i","n">> >>)])
  IN  trim(RemoveConnecting(RemoveBullets(RemoveNumbers(RemoveUnits(
             RemoveBrackets(text))))))

\* isValidIngredient(text) of the edge-function OCRService
isValidIngredientEdge(text) ==
  LET nonIngredientWords ==
        << <<"n","u","t","r","i","t","i","o","n">>, <<"f","a","c","t","s">>, <<"i","n","f","o","r","m","a","t","i","o","n">>, <<"l","a","b","e","l">>, <<"p","r","o","d","u","c","t">>, <<"b","r","a","n","d">>,
           <<"c","o","m","p","a","n","y">>, <<"i","n","c">>, <<"l","l","c">>, <<"c","o","r","p">>, <<"l","t","d">>, <<"u","s","a">>, <<"a","m","e","r","i","c","a">>,
           <<"d","i","s","t","r","i","b","u","t","e","d">>, <<"m","a","n","u","f","a","c","t","u","r","e","d">>, <<"p","a","c","k","a","g","e","d">>, <<"p","r","o","c","e","s","s","e","d">>,
           <<"b","e","s","t">>, <<"u","s","e">>, <<"e","x","p">>, <<"d","a","t","e">>, <<"l","o","t">>, <<"c","o","d","e">>, <<"u","p","c">>, <<"b","a","r","c","o","d","e">>,
           <<"c","a","l","o","r","i","e","s">>, <<"p","r","o","t","e","i","n">>, <<"c","a","r","b","s">>, <<"f","a","t">>, <<"f","i","b","e","r">>, <<"s","e","r","v","i","n","g">>,
           <<"s","i","z","e">>, <<"w","e","i","g","h","t">>, <<"n","e","t">>, <<"g","r","o","s","s">>, <<"t","o","t","a","l">>, <<"p","e","r">>, <<"d","a","i","l","y">>,
           <<"v","a","l","u","e">>, <<"p","e","r","c","e","n","t">>, <<"v","i","t","a","m","i","n">>, <<"m","i","n","e","r","a","l">>, <<"s","u","p","p","l","e","m","e","n","t">>,
           <<"w","a","r","n","i","n","g">>, <<"c","a","u","t","i","o","n">>, <<"a","l","l","e","r","g","e","n">>, <<"g","l","u","t","e","n">>, <<"d","a","i","r","y">>, <<"s","o","y">>,
           <<"k","e","e","p">>, <<"s","t","o","r","e">>, <<"r","e","f","r","i","g","e","r","a","t","e">>, <<"f","r","e","e","z","e">>, <<"r","o","o","m">>, <<"t","e","m","p","e","r","a","t","u","r","e">> >>
      \* /\d+\s*(cal|kcal|mg|g|oz|lb|ml|l)/
      Nutritional(lower) ==
        \E i \in 1..Len(lower) :
          /\ lower[i] \in Digits
          /\ AlternativeAt(lower, i + 1 + runAt(lower, i + 1, Whitespace),
                           << <<"c","a","l">>, <<"k","c","a","l">>, <<"m","g">>, <<"g">>, <<"o","z">>, <<"l","b">>, <<"m","l">>, <<"l">> >>) > 0
      \* /(www\.|http|@|\.com|\.org|\d{3}-\d{3}-\d{4})/
      Address(lower) ==
        \/ \E k \in 1..5 :
             includes(lower, << <<"w","w","w",".">>, <<"h","t","t","p">>, <<"@">>, <<".","c","o","m">>, <<".","o","r","g">> >>[k])
        \/ \E i \in 1..Len(lower) :
             /\ runAt(lower, i, Digits) >= 3
             /\ OccursAt(lower, i + 3, <<"-">>)
             /\ runAt(lower, i + 4, Digits) >= 3
             /\ OccursAt(lower, i + 7, <<"-">>)
             /\ runAt(lower, i + 8, Digits) >= 4
      Listed(lower) ==
        \E k \in 1..Len(nonIngredientWords) : includes(lower, nonIngredientWords[k])
      Checks(lowerText) ==
        ~Listed(lowerText) /\ ~Nutritional(lowerText) /\ ~Address(lowerText)
  IN  /\ Len(text) >= 2
      /\ \E i \in 1..Len(text) : text[i] \notin Digits
      /\ Checks(toLowerCase(text))
      /\ \E i \in 1..Len(text) : text[i] \in Letters

\* stopKeywords of processIngredientsFromText, lines 146-152: the phrases
\* after which the text is not part of the ingredient list, in the order
\* in which they are looked for.
stopKeywords ==
  << <<"n","u","t","r","i","t","i","o","n"," ","f","a","c","t","s">>, <<"n","u","t","r","i","t","i","o","n","a","l"," ","i","n","f","o","r","m","a","t","i","o","n">>, <<"a","l","l","e","r","g","e","n","s">>,
     <<"a","l","l","e","r","g","y"," ","i","n","f","o","r","m","a","t","i","o","n">>, <<"d","i","r","e","c","t","i","o","n","s">>, <<"s","e","r","v","i","n","g"," ","s","u","g","g","e","s","t","i","o","n">>,
     <<"d","i","s","t","r","i","b","u","t","e","d"," ","b","y">>, <<"m","a","n","u","f","a","c","t","u","r","e","d"," ","b","y">>, <<"b","e","s","t"," ","b","y">>, <<"u","s","e"," ","b","y">>,
     <<"e","x","p","i","r","a","t","i","o","n">>, <<"e","x","p">>, <<"l","o","t">>, <<"u","p","c">>, <<"n","e","t"," ","w","t">>, <<"c","a","l","o","r","i","e","s">>, <<"p","r","o","t","e","i","n">>,
     <<"c","a","r","b","o","h","y","d","r","a","t","e","s">>, <<"f","a","t">>, <<"s","o","d","i","u","m">>, <<"s","u","g","a","r">>, <<"v","i","t","a","m","i","n">>, <<"m","i","n","e","r","a","l">>,
     <<"d","a","i","l","y"," ","v","a","l","u","e">>, <<"%","d","v">>, <<"s","e","r","v","i","n","g"," ","s","i","z","e">> >>

\* processIngredientsFromText(ocrResult).ingredients of the edge-function
\* OCRService, for ocrResult.text = rawText
processIngredientsFromTextEdge(rawText) ==
  LET ingredientKeywords ==
        << <<"i","n","g","r","e","d","i","e","n","t","s",":">>, <<"i","n","g","r","e","d","i","e","n","t","e","s",":">>, <<"c","o","n","t","a","i","n","s",":">>, <<"c","o","m","p","o","s","i","t","i","o","n",":">>,
           <<"m","a","d","e"," ","w","i","t","h",":">>, <<"m","a","d","e"," ","f","r","o","m",":">>, <<"i","n","g","r","\\u00E9","d","i","e","n","t","s",":">>, <<"c","o","n","t","i","e","n","e",":">> >>
      \* The index after the first keyword, in the order of keywords, that
      \* lower holds, and -1 when it holds none.
      StartIndex(lower) ==
        LET After(found) ==
              IF found = {} THEN -1
              ELSE indexOf(lower, ingredientKeywords[Least(found)])
                     + Len(ingredientKeywords[Least(found)])
        IN  After({k \in 1..Len(ingredientKeywords) :
                     indexOf(lower, ingredientKeywords[k]) # -1})
      \* listText up to the first stop keyword, in the order of
      \* stopKeywords, that it holds.
      CutAtStop(listText) ==
        LET Cut(lower, stops) ==
              IF stops = {} THEN listText
              ELSE trim(substring(listText, 0,
                                  indexOf(lower, stopKeywords[Least(stops)])))
            Stops(lower) ==
              Cut(lower, {k \in 1..Len(stopKeywords) :
                            indexOf(lower, stopKeywords[k]) # -1})
        IN  Stops(toLowerCase(listText))
      \* .split(/[,.;\n]/)
      Pieces(s) == split(s, {i \in 1..Len(s) : s[i] \in {",", ".", ";", "\n"}})
      Cleaned(a) == [i \in 1..Len(a) |-> cleanIngredientText(a[i])]
      Valid(a) == filter(a, {i \in 1..Len(a) : isValidIngredientEdge(a[i])})
      Unique(a) == filter(a, {i \in 1..Len(a) : \A j \in 1..(i - 1) : a[j] # a[i]})
      From(startIndex) ==
        IF startIndex = -1 THEN <<>>
        ELSE Unique(Valid(Cleaned(Pieces(CutAtStop(
               trim(substring(rawText, startIndex, Len(rawText))))))))
  IN  From(StartIndex(toLowerCase(rawText)))

\* There is a word boundary \b before position j of s.
BoundaryAt(s, j) ==
  (j > 1 /\ IsWordChar(s[j - 1])) # (j <= Len(s) /\ IsWordChar(s[j]))

\* s.replace(/\s+/g, ' ')
collapseWhitespace(s) ==
  replaceMatches(s, [i \in 1..Len(s) |-> runAt(s, i, Whitespace)],
                 [i \in 1..Len(s) |-> <<" ">>])

\* cleanText(text) of services/ocrService.ts
cleanText(text) ==
  LET Optional(s, i, c) == IF OccursAt(s, i, <<c>>) THEN 1 ELSE 0
      NotIn(s, c) == {s[j] : j \in 1..Len(s)} \ {c}
      \* .replace(/^(ingredients?:?\s*|contains:?\s*|made\s+with:?\s*)/i, '')
      RemoveLabel(s) ==
        LET lower == toLowerCase(s)
            AfterColonAndSpace(n) ==
              LET Space(colon) == colon + runAt(lower, colon + 1, Whitespace)
              IN  Space(n + Optional(lower, n + 1, ":"))
            MadeWith(space) ==
              IF space >= 1 /\ OccursAt(lower, 5 + space, <<"w","i","t","h">>)
              THEN AfterColonAndSpace(8 + space) ELSE 0
            prefix ==
              IF OccursAt(lower, 1, <<"i","n","g","r","e","d","i","e","n","t">>)
              THEN AfterColonAndSpace(10 + Optional(lower, 11, "s"))
              ELSE IF OccursAt(lower, 1, <<"c","o","n","t","a","i","n","s">>)
              THEN AfterColonAndSpace(8)
              ELSE IF OccursAt(lower, 1, <<"m","a","d","e">>)
              THEN MadeWith(runAt(lower, 5, Whitespace))
              ELSE 0
        IN  SubSeq(s, prefix + 1, Len(s))
      \* .replace(/\b(contains?:?|may contain:?|allergens?:?)[^.]*\./gi, '')
      RemoveWarnings(s) ==
        LET lower == toLowerCase(s)
            Through(i, word) ==
              LET Dot(dot) == IF dot <= Len(s) THEN dot - i + 1 ELSE 0
              IN  IF word > 0 /\ BoundaryAt(s, i)
                  THEN Dot(i + word + runAt(s, i + word, NotIn(s, ".")))
                  ELSE 0
        IN  removeMatches(s, [i \in 1..Len(s) |->
                                Through(i, AlternativeAt(lower, i,
                                             << <<"c","o","n","t","a","i","n">>, <<"m","a","y"," ","c","o","n","t","a","i","n">>,
                                                <<"a","l","l","e","r","g","e","n">> >>))])
      \* .replace(/\b\d+\s*(mg|g|kg|ml|l|oz|lb|%)\b/gi, '')
      RemoveAmounts(s) ==
        LET lower == toLowerCase(s)
            units == << <<"m","g">>, <<"g">>, <<"k","g">>, <<"m","l">>, <<"l">>, <<"o","z">>, <<"l","b">>, <<"%">> >>
            Unit(i, unit) ==
              LET Matched(matching) ==
                    IF matching = {} THEN 0
                    ELSE unit + Len(units[Least(matching)]) - i
              IN  Matched({k \in 1..Len(units) :
                             /\ OccursAt(lower, unit, units[k])
                             /\ BoundaryAt(s, unit + Len(units[k]))})
            Amount(i, digits) ==
              IF digits > 0 /\ BoundaryAt(s, i)
              THEN Unit(i, i + digits + runAt(s, i + digits, Whitespace))
              ELSE 0
        IN  removeMatches(s, [i \in 1..Len(s) |-> Amount(i, runAt(s, i, Digits))])
      \* .replace(/\([^)]*(?:allergen|warning|note)[^)]*\)/gi, '')
      RemoveNotes(s) ==
        LET lower == toLowerCase(s)
            Note(i, close) ==
              IF /\ close <= Len(s)
                 /\ \E k \in 1..3 :
                      includes(SubSeq(lower, i + 1, close - 1),
                               << <<"a","l","l","e","r","g","e","n">>, <<"w","a","r","n","i","n","g">>, <<"n","o","t","e">> >>[k])
              THEN close - i + 1 ELSE 0
        IN  removeMatches(s, [i \in 1..Len(s) |->
                                IF s[i] = "("
                                THEN Note(i, i + 1 + runAt(s, i + 1, NotIn(s, ")")))
                                ELSE 0])
      \* .replace(/\.\s*$/, '')
      RemoveFinalStop(s) ==
        LET Before(dots) == IF dots = {} THEN s ELSE SubSeq(s, 1, Least(dots) - 1)
        IN  Before({i \in 1..Len(s) :
                      /\ s[i] = "."
                      /\ \A j \in (i + 1)..Len(s) : s[j] \in Whitespace})
      \* .replace(/([a-z])([A-Z])/g, '$1 $2')
      SplitCamelCase(s) ==
        replaceMatches(s, [i \in 1..Len(s) |->
                             IF /\ i < Len(s)
                                /\ s[i] \in Letters \ DOMAIN LowerCaseOf
                                /\ s[i + 1] \in DOMAIN LowerCaseOf
                             THEN 2 ELSE 0],
                       [i \in 1..Len(s) |-> <<s[i], " ", s[i + 1]>>])
  IN  trim(SplitCamelCase(RemoveFinalStop(RemoveNotes(RemoveAmounts(
             RemoveWarnings(RemoveLabel(collapseWhitespace(text))))))))

\* cleanIngredientName(ingredient) of services/ocrService.ts
cleanIngredientName(ingredient) ==
  LET \* .replace(/^[^\w]+|[^\w]+$/g, '')
      Strip(s) ==
        LET Between(wordChars) ==
              IF wordChars = {} THEN <<>>
              ELSE SubSeq(s, Least(wordChars),
                          CHOOSE i \in wordChars : \A j \in wordChars : j <= i)
        IN  Between({i \in 1..Len(s) : IsWordChar(s[i])})
      \* .replace(/\s*\(\s*\d+%?\s*\)/g, '')
      RemovePercentages(s) ==
        LET Close(i, close) == IF OccursAt(s, close, <<")">>) THEN close - i + 1 ELSE 0
            Percent(i, percent) ==
              Close(i, percent + runAt(s, percent, Whitespace))
            Digits1(i, digits, after) ==
              IF after > digits
              THEN Percent(i, after + (IF OccursAt(s, after, <<"%">>) THEN 1 ELSE 0))
              ELSE 0
            Number(i, digits) == Digits1(i, digits, digits + runAt(s, digits, Digits))
            Open(i, open) ==
              IF OccursAt(s, open, <<"(">>)
              THEN Number(i, open + 1 + runAt(s, open + 1, Whitespace))
              ELSE 0
        IN  removeMatches(s, [i \in 1..Len(s) |->
                                Open(i, i + runAt(s, i, Whitespace))])
      \* .replace(/\b\w/g, c => c.toUpperCase())
      toUpperCaseChar(c) ==
        IF \E u \in DOMAIN LowerCaseOf : LowerCaseOf[u] = c
        THEN CHOOSE u \in DOMAIN LowerCaseOf : LowerCaseOf[u] = c
        ELSE c
      Capitalize(s) ==
        [i \in 1..Len(s) |->
           IF IsWordChar(s[i]) /\ BoundaryAt(s, i)
           THEN toUpperCaseChar(s[i]) ELSE s[i]]
  IN  trim(collapseWhitespace(Capitalize(RemovePercentages(Strip(ingredient)))))

\* parseIngredients(text) of services/ocrService.ts
parseIngredients(text) ==
  LET \* /[,;](?!\s*\d)|\.(?=\s*[A-Z])/
      Delimiter(i, ahead) ==
        \/ /\ text[i] \in {",", ";"}
           /\ ~(ahead <= Len(text) /\ text[ahead] \in Digits)
        \/ /\ text[i] = "."
           /\ ahead <= Len(text) /\ text[ahead] \in DOMAIN LowerCaseOf
      delimiters ==
        {i \in 1..Len(text) : Delimiter(i, i + 1 + runAt(text, i + 1, Whitespace))}
      Trimmed(a) == [i \in 1..Len(a) |-> trim(a[i])]
      NonEmpty(a) == filter(a, {i \in 1..Len(a) : Len(a[i]) > 0})
      Sized(a) == filter(a, {i \in 1..Len(a) : Len(a[i]) >= 2 /\ Len(a[i]) <= 60})
      Cleaned(a) == [i \in 1..Len(a) |-> cleanIngredientName(a[i])]
      Unique(a) ==
        filter(a, {i \in 1..Len(a) :
                     \A j \in 1..(i - 1) : toLowerCase(a[j]) # toLowerCase(a[i])})
  IN  Unique(Cleaned(Sized(NonEmpty(Trimmed(split(text, delimiters))))))

\* correctCommonOCRErrors(ingredient): the corrections in the order of
\* Object.entries, integer-like keys first.
correctCommonOCRErrors(ingredient) ==
  LET corrections ==
        << <<<<"0">>, <<"O">>>>, <<<<"1">>, <<"I">>>>, <<<<"5">>, <<"S">>>>, <<<<"8">>, <<"B">>>>,
           <<<<"S","o","d","i","u","r","n">>, <<"S","o","d","i","u","m">>>>, <<<<"C","i","t","r","l","c">>, <<"C","i","t","r","i","c">>>>,
           <<<<"A","r","t","l","f","l","c","l","a","l">>, <<"A","r","t","i","f","i","c","i","a","l">>>>, <<<<"N","a","t","u","r","e","l">>, <<"N","a","t","u","r","a","l">>>>,
           <<<<"V","l","t","e","m","i","n">>, <<"V","i","t","a","m","i","n">>>>, <<<<"P","r","e","s","e","r","v","e","t","i","v","e">>, <<"P","r","e","s","e","r","v","a","t","i","v","e">>>>,
           <<<<"C","o","l","o","r","i","n","g">>, <<"C","o","l","o","r","i","n","g">>>>, <<<<"F","l","e","v","o","r","l","n","g">>, <<"F","l","a","v","o","r","i","n","g">>>>,
           <<<<"S","w","e","e","t","e","h","e","r">>, <<"S","w","e","e","t","e","n","e","r">>>>, <<<<"S","t","e","b","i","l","l","z","e","r">>, <<"S","t","a","b","i","l","i","z","e","r">>>>,
           <<<<"E","m","u","l","s","l","l","l","e","r">>, <<"E","m","u","l","s","i","f","i","e","r">>>>, <<<<"T","h","l","c","k","e","n","e","r">>, <<"T","h","i","c","k","e","n","e","r">>>> >>
      \* corrected.replace(new RegExp(error, 'gi'), correction)
      Corrected(s, k) ==
        LET lower == toLowerCase(s)
            error == toLowerCase(corrections[k][1])
        IN  replaceMatches(s, [i \in 1..Len(s) |->
                                 IF OccursAt(lower, i, error) THEN Len(error) ELSE 0],
                           [i \in 1..Len(s) |-> corrections[k][2]])
      RECURSIVE after(_)
      after(k) == IF k = 0 THEN ingredient ELSE Corrected(after(k - 1), k)
  IN  after(Len(corrections))

\* standardizeIngredientNames(ingredient)
standardizeIngredientNames(ingredient) ==
  LET standardizations ==
        << <<<<"A","s","c","o","r","b","i","c"," ","A","c","i","d">>, <<"A","s","c","o","r","b","i","c"," ","A","c","i","d"," ","(","V","i","t","a","m","i","n"," ","C",")">>>>,
           <<<<"V","i","t","a","m","i","n"," ","C">>, <<"A","s","c","o","r","b","i","c"," ","A","c","i","d"," ","(","V","i","t","a","m","i","n"," ","C",")">>>>,
           <<<<"T","o","c","o","p","h","e","r","o","l">>, <<"V","i","t","a","m","i","n"," ","E"," ","(","T","o","c","o","p","h","e","r","o","l",")">>>>,
           <<<<"A","l","p","h","a"," ","T","o","c","o","p","h","e","r","o","l">>, <<"V","i","t","a","m","i","n"," ","E"," ","(","T","o","c","o","p","h","e","r","o","l",")">>>>,
           <<<<"R","e","d"," ","D","y","e"," ","4","0">>, <<"A","r","t","i","f","i","c","i","a","l"," ","C","o","l","o","r"," ","R","e","d"," ","4","0">>>>,
           <<<<"R","e","d"," ","4","0">>, <<"A","r","t","i","f","i","c","i","a","l"," ","C","o","l","o","r"," ","R","e","d"," ","4","0">>>>,
           <<<<"F","D","&","C"," ","R","e","d"," ","4","0">>, <<"A","r","t","i","f","i","c","i","a","l"," ","C","o","l","o","r"," ","R","e","d"," ","4","0">>>>,
           <<<<"Y","e","l","l","o","w"," ","5">>, <<"A","r","t","i","f","i","c","i","a","l"," ","C","o","l","o","r"," ","Y","e","l","l","o","w"," ","5">>>>,
           <<<<"B","l","u","e"," ","1">>, <<"A","r","t","i","f","i","c","i","a","l"," ","C","o","l","o","r"," ","B","l","u","e"," ","1">>>>,
           <<<<"S","o","d","i","u","m"," ","B","e","n","z","o","a","t","e"," ","(","P","r","e","s","e","r","v","a","t","i","v","e",")">>, <<"S","o","d","i","u","m"," ","B","e","n","z","o","a","t","e">>>>,
           <<<<"P","o","t","a","s","s","i","u","m"," ","S","o","r","b","a","t","e"," ","(","P","r","e","s","e","r","v","a","t","i","v","e",")">>, <<"P","o","t","a","s","s","i","u","m"," ","S","o","r","b","a","t","e">>>>,
           <<<<"C","a","n","e"," ","S","u","g","a","r">>, <<"O","r","g","a","n","i","c"," ","C","a","n","e"," ","S","u","g","a","r">>>>,
           <<<<"H","i","g","h"," ","F","r","u","c","t","o","s","e"," ","C","o","r","n"," ","S","y","r","u","p">>, <<"H","i","g","h"," ","F","r","u","c","t","o","s","e"," ","C","o","r","n"," ","S","y","r","u","p">>>>,
           <<<<"H","F","C","S">>, <<"H","i","g","h"," ","F","r","u","c","t","o","s","e"," ","C","o","r","n"," ","S","y","r","u","p">>>>,
           <<<<"N","a","t","u","r","a","l"," ","a","n","d"," ","A","r","t","i","f","i","c","i","a","l"," ","F","l","a","v","o","r","s">>, <<"N","a","t","u","r","a","l"," ","F","l","a","v","o","r","s">>>>,
           <<<<"N","a","t","u","r","a","l"," ","&"," ","A","r","t","i","f","i","c","i","a","l"," ","F","l","a","v","o","r","s">>, <<"N","a","t","u","r","a","l"," ","F","l","a","v","o","r","s">>>> >>
      Standard(known) ==
        IF known = {} THEN ingredient ELSE standardizations[Least(known)][2]
  IN  Standard({k \in 1..Len(standardizations) : standardizations[k][1] = ingredient})

\* isValidIngredient(ingredient) of services/ocrService.ts
isValidIngredient(ingredient) ==
  LET lower == toLowerCase(ingredient)
      letters == {i \in 1..Len(ingredient) : ingredient[i] \in Letters}
      hasValidPattern ==
        \/ 1 \in letters
        \/ \E i \in letters : i + 1 \in letters
      hasInvalidPattern ==
        \/ \A i \in 1..Len(ingredient) : ingredient[i] \in Digits
        \/ letters = {}
        \/ lower \in {<<"a","n","d">>, <<"o","r">>, <<"t","h","e">>, <<"a">>, <<"a","n">>, <<"i","n">>, <<"o","n">>, <<"a","t">>, <<"b","y">>, <<"f","o","r">>,
                      <<"w","i","t","h">>, <<"f","r","o","m">>}
        \/ lower \in {<<"m","g">>, <<"g">>, <<"k","g">>, <<"m","l">>, <<"l">>, <<"o","z">>, <<"l","b">>, <<"%">>}
        \/ \A i \in 1..Len(ingredient) : ~IsWordChar(ingredient[i])
  IN  /\ Len(ingredient) >= 2 /\ Len(ingredient) <= 60
      /\ hasValidPattern
      /\ ~hasInvalidPattern

\* enhanceIngredientList(ingredients)
enhanceIngredientList(ingredients) ==
  LET Corrected(a) == [i \in 1..Len(a) |-> correctCommonOCRErrors(a[i])]
      Standardized(a) == [i \in 1..Len(a) |-> standardizeIngredientNames(a[i])]
      Valid(a) == filter(a, {i \in 1..Len(a) : isValidIngredient(a[i])})
  IN  Valid(Standardized(Corrected(ingredients)))

\* processIngredientsFromText(ocrResult).ingredients of
\* services/ocrService.ts, for ocrResult.text = text: no step of
\* aiEnhancedIngredientParsing throws, so the fallback of the catch block,
\* parseIngredients(cleanText(text)), is never taken.
processIngredientsFromText(text) ==
  enhanceIngredientList(parseIngredients(cleanText(text)))

(***************************************************************************)
(* Calls of the text processing: label texts made of an optional           *)
(* ingredient-list label and of items separated by commas, closed by a     *)
(* full stop.                                                              *)
(***************************************************************************)
Sugar == <<"S","u","g","a","r">>
Salt == <<"S","a","l","t">>
NutritionFacts == <<"N","u","t","r","i","t","i","o","n"," ","F","a","c","t","s">>
Springfield == <<"S","p","r","i","n","g","f","i","e","l","d">>

\* What a label prints besides its ingredient list.
Boilerplate == {NutritionFacts, Springfield}

\* The items of the texts.
TextItems == {Water, Sugar, Salt} \cup Boilerplate

\* The largest number of items of a text.
MaxItems == 3

\* The texts of n items at most, before the closing full stop.
RECURSIVE ItemTexts(_, _)
ItemTexts(items, n) ==
  IF n = 1 THEN items
  ELSE LET shorter == ItemTexts(items, n - 1)
       IN  shorter \cup {t \o <<","," ">> \o x : t \in shorter, x \in items}

\* ocrResult.text: the texts the OCR reads off a label, among them the texts
\* of a label that prints an ingredient twice, in another case or under
\* another of its names.
Texts ==
  {label \o t \o <<".">> :
     label \in {<<>>, <<"I","n","g","r","e","d","i","e","n","t","s",":"," ">>},
     t \in ItemTexts(TextItems, MaxItems)
             \cup ItemTexts({Water, <<"W","A","T","E","R">>, <<"V","i","t","a","m","i","n"," ","C">>, <<"A","s","c","o","r","b","i","c"," ","A","c","i","d">>}, 2)}

\* The texts without an ingredient-list label that hold boilerplate only.
BoilerplateTexts == {t \o <<".">> : t \in ItemTexts(Boilerplate, MaxItems)}

\* processIngredientsFromText of the OCRService the build binds.
processIngredientsFromTextWith(impl, text) ==
  IF impl = "edgeFunction" THEN processIngredientsFromTextEdge(text)
  ELSE processIngredientsFromText(text)

\* OCRService.processIngredientsFromText(ocrResult) is called.
CallProcessIngredientsFromText ==
  /\ call.op = "none"
  /\ \E text \in Texts :
       call' = [op |-> "processIngredientsFromText", args |-> <<text>>,
                result |-> <<processIngredientsFromTextWith(build.ocr, text)>>]
  /\ UNCHANGED <<build, scanVars, profile, analysisVars>>

\* processScan(imageUri) for an image the OCR reads text off, when no
\* provider call and no storage operation fails: the candidates of the text
\* are analysed and the session is completed with the analysis.
CallProcessScan ==
  /\ call.op = "none"
  /\ \E text \in Texts :
       \E ingredients \in {processIngredientsFromTextWith(build.ocr, text)} :
         call' = [op |-> "processScan", args |-> <<text>>,
                  result |-> <<[status |-> "completed",
                                ingredients |-> ingredients,
                                analysis |->
                                  analyzeIngredientsWith(build.ingredients,
                                                         ingredients, profile)]>>]
  /\ UNCHANGED <<build, scanVars, profile, analysisVars>>

NextText == CallProcessIngredientsFromText \/ CallProcessScan

SpecText == InitClassify /\ [][NextText]_vars

(***************************************************************************)
(* UserProfileService: the personalized rating of one ingredient.          *)
(***************************************************************************)
\* getAvailableDietaryPreferences: the name, the label and the
\* avoidIngredients of each preference.
AvailableDietaryPreferences ==
  <<
    [name |-> "gluten-free", label |-> "Gluten-Free",
     avoidIngredients |->
       <<<<"w","h","e","a","t">>, <<"b","a","r","l","e","y">>, <<"r","y","e">>, <<"m","a","l","t">>, <<"w","h","e","a","t"," ","f","l","o","u","r">>, <<"e","n","r","i","c","h","e","d"," ","f","l","o","u","r">>>>],
    [name |-> "vegan", label |-> "Vegan",
     avoidIngredients |->
       <<<<"m","i","l","k">>, <<"e","g","g","s">>, <<"h","o","n","e","y">>, <<"g","e","l","a","t","i","n">>, <<"w","h","e","y">>, <<"c","a","s","e","i","n">>, <<"a","l","b","u","m","i","n">>>>],
    [name |-> "vegetarian", label |-> "Vegetarian",
     avoidIngredients |->
       <<<<"b","e","e","f">>, <<"p","o","r","k">>, <<"c","h","i","c","k","e","n">>, <<"f","i","s","h">>, <<"s","e","a","f","o","o","d">>, <<"m","e","a","t"," ","e","x","t","r","a","c","t">>>>],
    [name |-> "diabetic", label |-> "Diabetic-Friendly",
     avoidIngredients |->
       <<<<"s","u","g","a","r">>, <<"h","i","g","h"," ","f","r","u","c","t","o","s","e"," ","c","o","r","n"," ","s","y","r","u","p">>, <<"c","o","r","n"," ","s","y","r","u","p">>, <<"d","e","x","t","r","o","s","e">>,
         <<"s","u","c","r","o","s","e">>>>],
    [name |-> "keto", label |-> "Keto",
     avoidIngredients |->
       <<<<"s","u","g","a","r">>, <<"w","h","e","a","t"," ","f","l","o","u","r">>, <<"r","i","c","e">>, <<"c","o","r","n">>, <<"p","o","t","a","t","o"," ","s","t","a","r","c","h">>,
         <<"m","a","l","t","o","d","e","x","t","r","i","n">>>>],
    [name |-> "paleo", label |-> "Paleo",
     avoidIngredients |->
       <<<<"w","h","e","a","t">>, <<"c","o","r","n">>, <<"s","o","y">>, <<"p","e","a","n","u","t","s">>, <<"b","e","a","n","s">>,
         <<"a","r","t","i","f","i","c","i","a","l"," ","p","r","e","s","e","r","v","a","t","i","v","e","s">>>>],
    [name |-> "low-sodium", label |-> "Low Sodium",
     avoidIngredients |->
       <<<<"s","o","d","i","u","m"," ","c","h","l","o","r","i","d","e">>, <<"m","o","n","o","s","o","d","i","u","m"," ","g","l","u","t","a","m","a","t","e">>, <<"s","o","d","i","u","m"," ","b","e","n","z","o","a","t","e">>,
         <<"s","o","d","i","u","m"," ","n","i","t","r","a","t","e">>>>],
    [name |-> "dairy-free", label |-> "Dairy-Free",
     avoidIngredients |->
       <<<<"m","i","l","k">>, <<"c","h","e","e","s","e">>, <<"b","u","t","t","e","r">>, <<"c","r","e","a","m">>, <<"w","h","e","y">>, <<"c","a","s","e","i","n">>, <<"l","a","c","t","o","s","e">>>>],
    [name |-> "nut-free", label |-> "Nut-Free",
     avoidIngredients |->
       <<<<"a","l","m","o","n","d","s">>, <<"w","a","l","n","u","t","s">>, <<"p","e","a","n","u","t","s">>, <<"c","a","s","h","e","w","s">>, <<"h","a","z","e","l","n","u","t","s">>, <<"p","e","c","a","n","s">>>>],
    [name |-> "soy-free", label |-> "Soy-Free",
     avoidIngredients |->
       <<<<"s","o","y">>, <<"s","o","y","b","e","a","n"," ","o","i","l">>, <<"s","o","y"," ","l","e","c","i","t","h","i","n">>, <<"t","o","f","u">>, <<"t","e","m","p","e","h">>, <<"m","i","s","o">>>>]
  >>

\* shouldAvoidIngredient(ingredientName), on the preferences and the custom
\* avoidances its two reads return: the first matching custom avoidance,
\* else the first active preference with a matching avoidIngredient.
shouldAvoidIngredient(preferences, customAvoidances, ingredientName) ==
  LET normalizedName == trim(toLowerCase(ingredientName))
      MatchesCustom(avoidance) ==
        \/ avoidance.ingredientName = normalizedName
        \/ includes(normalizedName, avoidance.ingredientName)
        \/ includes(avoidance.ingredientName, normalizedName)
      MatchesPreference(preference) ==
        /\ preference.active
        /\ \E k \in 1..Len(preference.avoidIngredients) :
             \/ includes(normalizedName, toLowerCase(preference.avoidIngredients[k]))
             \/ includes(toLowerCase(preference.avoidIngredients[k]), normalizedName)
      custom == {i \in 1..Len(customAvoidances) : MatchesCustom(customAvoidances[i])}
      restricting == {i \in 1..Len(preferences) : MatchesPreference(preferences[i])}
  IN  IF custom # {}
      THEN [shouldAvoid |-> TRUE,
            reason |-> <<customAvoidances[Least(custom)].reason>>,
            severity |-> customAvoidances[Least(custom)].severity,
            source |-> "custom-avoidance"]
      ELSE IF restricting # {}
      THEN [shouldAvoid |-> TRUE,
            reason |-> <<"Restricted by ", preferences[Least(restricting)].label,
                         " diet">>,
            severity |-> "moderate",
            source |-> "dietary-preference"]
      ELSE [shouldAvoid |-> FALSE, reason |-> <<"">>, severity |-> "mild",
            source |-> "none"]

\* getPersonalizedRating(ingredientName, baseSafetyRating)
getPersonalizedRating(preferences, customAvoidances, ingredientName, baseSafetyRating) ==
  LET Rate(avoidanceInfo) ==
        IF avoidanceInfo.shouldAvoid
        THEN [rating |-> IF avoidanceInfo.severity = "severe" THEN "avoid"
                         ELSE "caution",
              explanation |->
                avoidanceInfo.reason \o
                  <<". This ingredient conflicts with your dietary preferences.">>,
              isPersonalized |-> TRUE]
        ELSE [rating |-> baseSafetyRating,
              explanation |-> <<"Rating based on general safety guidelines.">>,
              isPersonalized |-> FALSE]
  IN  Rate(shouldAvoidIngredient(preferences, customAvoidances, ingredientName))

\* One call of getPersonalizedRating: the ingredient and its base rating,
\* the stored preferences with some of them active, and the stored custom
\* avoidances, none or one of each severity.
CallGetPersonalizedRating ==
  /\ call.op = "none"
  /\ \E ingredientName \in IngredientNames, baseSafetyRating \in Ratings,
        active \in SUBSET {"vegan", "low-sodium"},
        customAvoidances \in
          {<<>>} \cup {<<[id |-> 1, ingredientName |-> <<"w","a","t","e","r">>,
                          reason |-> "reason", severity |-> severity]>> :
                         severity \in {"mild", "moderate", "severe"}} :
       call' = [op |-> "getPersonalizedRating",
                args |-> <<ingredientName, baseSafetyRating, active,
                           customAvoidances>>,
                result |->
                  <<getPersonalizedRating(
                      [i \in 1..Len(AvailableDietaryPreferences) |->
                         [name |-> AvailableDietaryPreferences[i].name,
                          label |-> AvailableDietaryPreferences[i].label,
                          avoidIngredients |->
                            AvailableDietaryPreferences[i].avoidIngredients,
                          active |-> AvailableDietaryPreferences[i].name \in active]],
                      customAvoidances, ingredientName, baseSafetyRating)>>]
  /\ UNCHANGED <<build, scanVars, profile, analysisVars>>

SpecRating == InitClassify /\ [][CallGetPersonalizedRating]_vars

(***************************************************************************)
(* The scan state machine.                                                 *)
(***************************************************************************)
\* A processScan call that has returned or thrown.
Ended(s) == scan[s].pc \in {"returned", "thrown"}

\* The status changes of the four-state machine.
StatusMachine ==
  {<<"none", "pending">>, <<"pending", "processing">>,
   <<"processing", "completed">>, <<"processing", "failed">>}

\* C1: every scan follows pending -> processing -> completed | failed: the
\* session processScan creates starts in status pending, and every status
\* change of a session is one of pending->processing, processing->completed,
\* processing->failed, so that no session is in processing without having
\* been pending first.
C1_StatusFollowsMachine ==
  [][\A s \in Scans :
       session'[s].status # session[s].status
         => <<session[s].status, session'[s].status>> \in StatusMachine]_vars

\* C2: completed and failed are terminal: once the status of a session is
\* completed or failed, no later step of processScan, a failing write to
\* the history store included, changes it.
C2_TerminalStatus ==
  [][\A s \in Scans :
       session[s].status \in {"completed", "failed"}
         => session'[s].status = session[s].status]_vars

\* C3: when the OCR provider fails during processScan, the classifier is
\* never run on substituted text and no AnalysisResult is produced, and the
\* scan ends in status failed with the provider's error message.
C3_ProviderFailureFailsScan ==
  \A s \in Scans :
    scan[s].provider = "failed"
      => /\ session[s].analysisResult = <<>>
         /\ \A i \in 1..Len(session[s].ocrResult) :
              session[s].ocrResult[i].source # "mock"
         /\ Ended(s)
              => /\ session[s].status = "failed"
                 /\ \E i \in 1..Len(session[s].errorMessage) :
                      session[s].errorMessage[i] = ProviderError[1]

\* C5: when a second processScan starts while an earlier one is in flight,
\* the earlier scan is cancelled: from then on it performs no further write
\* to the history store and never reaches completed.
C5_SupersededScanIsCancelled ==
  [][\A s \in Scans :
       (\E t \in Scans : s \in scan[t].supersedes)
         => /\ scan'[s].writes = scan[s].writes
            /\ session'[s].status # "completed"]_vars

\* C6: a write of one session to the history store affects only that
\* session's record: after two concurrent processScan calls have ended, no
\* storage operation having failed, the history holds the final record of
\* both sessions.
C6_HistoryHoldsBothFinalRecords ==
  ((\A s \in Scans : Ended(s)) /\ faults = 0)
    => \A s \in Scans : \E i \in 1..Len(history) : history[i] = session[s]

\* C7: a persistence failure is its own kind of outcome: when OCR and the
\* analysis succeeded and only the write of the session to the history
\* store raised, the scan is not put into the failed state that an
\* extraction or analysis failure gives.
C7_PersistenceFailureIsDistinct ==
  \A s \in Scans :
    (/\ scan[s].provider = "ok"
     /\ session[s].analysisResult # <<>>
     /\ scan[s].error = StorageError)
      => session[s].status # "failed"

(***************************************************************************)
(* The analysis.                                                           *)
(***************************************************************************)
\* C4: within one call of personalizeAnalysis every ingredient's restriction
\* is decided against the dietary-restriction state read at the start of
\* personalization, so that no two ingredients of one result are judged
\* against different profile states, whatever edits of the profile
\* interleave with the call.
C4_JudgedAgainstOneSnapshot ==
  (an.pc = "done" /\ an.dietaryProfile # <<>>)
    => /\ \A i \in 1..Len(an.judged) : an.judged[i] = an.dietaryProfile[1]
       /\ \A i, j \in 1..Len(an.judged) : an.judged[i] = an.judged[j]

\* C8: analyzeIngredients called with the empty list returns ingredients =
\* [], overallSafetyScore = 100 and the summary counts safe = caution =
\* avoid = 0.
C8_EmptyListScores100 ==
  (an.pc = "done" /\ an.input = <<>>)
    => /\ an.result[1].ingredients = <<>>
       /\ an.result[1].overallSafetyScore = 100
       /\ an.result[1].summary = [safe |-> 0, caution |-> 0, avoid |-> 0]

\* C9: the result of analyzeIngredients has exactly one analysis per input
\* candidate, in input order, the i-th at position i, and its summary
\* counts, taken over the final rating of each returned ingredient, sum to
\* the number of returned ingredients.
C9_OneAnalysisPerCandidate ==
  an.pc = "done"
    => LET result == an.result[1]
           ratings == RatingsOf(result.ingredients)
       IN  /\ Len(result.ingredients) = Len(an.input)
           /\ \A i \in 1..Len(an.input) :
                /\ result.ingredients[i].name = an.input[i]
                /\ result.ingredients[i].position = i
           /\ result.summary.safe = CountRating(ratings, "safe")
           /\ result.summary.caution = CountRating(ratings, "caution")
           /\ result.summary.avoid = CountRating(ratings, "avoid")
           /\ result.summary.safe + result.summary.caution + result.summary.avoid
                = Len(result.ingredients)

\* An analysis of MaxLen candidates has ended in which personalization
\* changed the rating of an ingredient.
C9_Witness ==
  /\ an.pc = "done"
  /\ build.ingredients = "aiPersonalized"
  /\ Len(an.input) = MaxLen
  /\ \E i \in 1..Len(an.result[1].ingredients) :
       /\ an.result[1].ingredients[i].isPersonalized
       /\ an.result[1].ingredients[i].originalRating
            # an.result[1].ingredients[i].rating

\* C10: for a non-empty list the overallSafetyScore is
\* round((100 #safe + 60 #caution + 20 #avoid) / total) over the final
\* ratings, an integer between 20 and 100; for the empty list it is 100.
C10_ScoreFormula ==
  an.pc = "done"
    => LET result == an.result[1]
           ratings == RatingsOf(result.ingredients)
           total == Len(ratings)
       IN  IF total = 0 THEN result.overallSafetyScore = 100
           ELSE /\ result.overallSafetyScore =
                     MathRound(100 * CountRating(ratings, "safe")
                                 + 60 * CountRating(ratings, "caution")
                                 + 20 * CountRating(ratings, "avoid"), total)
                /\ result.overallSafetyScore \in 20..100
(***************************************************************************)
(* The aggregate score.                                                    *)
(***************************************************************************)
\* C11: the aggregate score is monotonic in the ratings: replacing one
\* caution by avoid, the others fixed, never increases calculateSafetyScore,
\* and replacing one caution by safe never decreases it.
C11_ScoreIsMonotonic ==
  call.op = "calculateSafetyScoreReplaced"
    => /\ call.args[3] = "avoid" => call.result[2] <= call.result[1]
       /\ call.args[3] = "safe" => call.result[2] >= call.result[1]

\* A caution among MaxRatings ratings was replaced by avoid and the score
\* fell.
C11_Witness ==
  /\ call.op = "calculateSafetyScoreReplaced"
  /\ Len(call.args[1]) = MaxRatings
  /\ call.args[3] = "avoid"
  /\ call.result[2] < call.result[1]
(***************************************************************************)
(* Personalization.                                                        *)
(***************************************************************************)
\* The order safe < caution < avoid.
Severity(rating) ==
  CASE rating = "safe" -> 0 [] rating = "caution" -> 1 [] rating = "avoid" -> 2

\* C12: personalizeIngredient gives personalizedRating avoid and
\* isPersonalized true when shouldAvoid holds, whatever the base rating and
\* shouldFlag; otherwise caution and isPersonalized true when shouldFlag
\* holds and the base rating is safe; otherwise the base rating and
\* isPersonalized false.
C12_PersonalizeIngredientRules ==
  call.op = "personalizeIngredient"
    => LET ingredient == call.args[1]
           restriction == call.args[2]
           personalized == call.result[1]
       IN  IF restriction.shouldAvoid
           THEN personalized.personalizedRating = "avoid" /\ personalized.isPersonalized
           ELSE IF restriction.shouldFlag /\ ingredient.rating = "safe"
           THEN personalized.personalizedRating = "caution" /\ personalized.isPersonalized
           ELSE /\ personalized.personalizedRating = ingredient.rating
                /\ ~personalized.isPersonalized

\* A safe ingredient that the restriction both avoids and flags was rated
\* avoid.
C12_Witness ==
  /\ call.op = "personalizeIngredient"
  /\ call.args[1].rating = "safe"
  /\ call.args[2].shouldAvoid /\ call.args[2].shouldFlag
  /\ call.result[1].personalizedRating = "avoid"

\* C13: personalization never downgrades: the personalizedRating is at
\* least as severe as the originalRating in the order safe < caution <
\* avoid, and a base rating of avoid stays avoid.
C13_NeverDowngrades ==
  call.op = "personalizeIngredient"
    => LET ingredient == call.args[1]
           personalized == call.result[1]
       IN  /\ personalized.originalRating = ingredient.rating
           /\ Severity(personalized.personalizedRating)
                >= Severity(personalized.originalRating)
           /\ ingredient.rating = "avoid" => personalized.personalizedRating = "avoid"

\* An ingredient rated avoid that the restriction flags without avoiding
\* it kept its rating.
C13_Witness ==
  /\ call.op = "personalizeIngredient"
  /\ call.args[1].rating = "avoid"
  /\ call.args[2].shouldFlag /\ ~call.args[2].shouldAvoid
  /\ call.result[1].personalizedRating = "avoid"

\* C14: in every PersonalizedAnalysis, isPersonalized false implies that
\* personalizedRating is originalRating and that personalizationReasons is
\* empty.
C14_UnpersonalizedIsUnchanged ==
  call.op = "personalizeIngredient"
    => LET personalized == call.result[1]
       IN  ~personalized.isPersonalized
             => /\ personalized.personalizedRating = personalized.originalRating
                /\ personalized.personalizationReasons = <<>>

\* An ingredient was left unpersonalized although the restriction came
\* with reasons.
C14_Witness ==
  /\ call.op = "personalizeIngredient"
  /\ ~call.result[1].isPersonalized
  /\ call.args[2].reasons # <<>>

\* C15: isPersonalized true implies a non-empty personalizationReasons:
\* whenever checkIngredientRestriction returns shouldAvoid or shouldFlag
\* its reasons list has an entry, for every combination of active
\* preferences and custom avoidances.
C15_PersonalizedHasReasons ==
  /\ call.op = "checkIngredientRestriction"
       => ((call.result[1].shouldAvoid \/ call.result[1].shouldFlag)
             => call.result[1].reasons # <<>>)
  /\ call.op = "personalizeIngredient"
       => (call.result[1].isPersonalized
             => call.result[1].personalizationReasons # <<>>)

\* A safe ingredient was personalized to caution by a custom avoidance
\* alone, no preference being active.
C15_Witness ==
  /\ call.op = "personalizeIngredient"
  /\ profile.active = {}
  /\ call.result[1].isPersonalized
  /\ call.result[1].personalizedRating = "caution"

\* The preferences of the catalog, and the custom avoidances of the stored
\* profile, that match the ingredient name.
MatchingPreferences(ingredientName) ==
  LET normalizedIngredient == trim(toLowerCase(ingredientName))
  IN  {i \in 1..Len(DEFAULT_PREFERENCES) :
         \/ \E k \in 1..Len(DEFAULT_PREFERENCES[i].ingredientsToAvoid) :
              MatchesEitherWay(normalizedIngredient,
                               DEFAULT_PREFERENCES[i].ingredientsToAvoid[k])
         \/ \E k \in 1..Len(DEFAULT_PREFERENCES[i].ingredientsToFlag) :
              MatchesEitherWay(normalizedIngredient,
                               DEFAULT_PREFERENCES[i].ingredientsToFlag[k])}

MatchingAvoidances(ingredientName) ==
  {i \in 1..Len(profile.customAvoidances) :
     MatchesEitherWay(trim(toLowerCase(ingredientName)),
                      profile.customAvoidances[i].ingredientName)}

\* C16: checkIngredientRestriction collects the reasons of all matching
\* sources: the reasons list has one entry for each matching custom
\* avoidance and one for each matching active preference, and inactive
\* preferences contribute no reason and no flag.
C16_AllReasonsCollected ==
  call.op = "checkIngredientRestriction"
    => LET restriction == call.result[1]
           preferences == {i \in MatchingPreferences(call.args[1]) :
                             DEFAULT_PREFERENCES[i].id \in profile.active}
           avoidances == MatchingAvoidances(call.args[1])
           ofPreferences == {k \in 1..Len(restriction.reasons) :
                               restriction.reasons[k][1] # "Custom restriction"}
           ofAvoidances == {k \in 1..Len(restriction.reasons) :
                              restriction.reasons[k][1] = "Custom restriction"}
       IN  /\ Cardinality(ofPreferences) = Cardinality(preferences)
           /\ Cardinality(ofAvoidances) = Cardinality(avoidances)
           /\ \A i \in preferences : \E k \in ofPreferences :
                restriction.reasons[k][1] = DEFAULT_PREFERENCES[i].label
           /\ \A i \in avoidances : \E k \in ofAvoidances :
                restriction.reasons[k][2] = profile.customAvoidances[i].reason
           /\ (preferences = {} /\ avoidances = {})
                => ~restriction.shouldAvoid /\ ~restriction.shouldFlag

\* Two custom avoidances and one active preference matched the same
\* ingredient, which an inactive preference matches too.
C16_Witness ==
  /\ call.op = "checkIngredientRestriction"
  /\ Cardinality(MatchingAvoidances(call.args[1])) = 2
  /\ Cardinality({i \in MatchingPreferences(call.args[1]) :
                    DEFAULT_PREFERENCES[i].id \in profile.active}) = 1
  /\ \E i \in MatchingPreferences(call.args[1]) :
       DEFAULT_PREFERENCES[i].id \notin profile.active
  /\ Len(call.result[1].reasons) = 3
(***************************************************************************)
(* The text processing.                                                    *)
(***************************************************************************)
\* C17: when the OCR text is non-empty but holds no ingredient-list label,
\* only address and nutrition boilerplate, processIngredientsFromText
\* returns an empty list, and the scan ends completed with an empty
\* AnalysisResult.
C17_NoLabelGivesEmptyList ==
  (call.op \in {"processIngredientsFromText", "processScan"}
     /\ call.args[1] \in BoilerplateTexts)
    => IF call.op = "processIngredientsFromText"
       THEN call.result[1] = <<>>
       ELSE /\ call.result[1].status = "completed"
            /\ call.result[1].ingredients = <<>>
            /\ call.result[1].analysis.ingredients = <<>>

\* C18: the text "Ingredients: Water, Sugar, Salt." is mapped to exactly
\* the list Water, Sugar, Salt: three entries in the order of the text,
\* none dropped by the stop-phrase cut.
C18_WaterSugarSalt ==
  (call.op = "processIngredientsFromText"
     /\ call.args[1] = <<"I","n","g","r","e","d","i","e","n","t","s",":"," ","W","a","t","e","r",","," ","S","u","g","a","r",","," ","S","a","l","t",".">>)
    => call.result[1] = <<Water, Sugar, Salt>>

\* C25: when the ingredient text contains several stop phrases, the text is
\* truncated at the leftmost occurrence of any stop phrase: the candidates
\* are those of the text before the earliest stop phrase in the string, and
\* none comes from text to its right, whatever the order of the phrases in
\* the list of stop phrases.
C25_CutAtLeftmostStopPhrase ==
  (call.op = "processIngredientsFromText" /\ build.ocr = "edgeFunction")
    => \A leftmost \in
            {Least(({indexOf(toLowerCase(call.args[1]), stopKeywords[k]) :
                       k \in 1..Len(stopKeywords)} \ {-1})
                     \cup {Len(call.args[1])})} :
         call.result[1] =
           processIngredientsFromTextEdge(substring(call.args[1], 0, leftmost))

\* C26: the candidate list processIngredientsFromText returns holds no two
\* entries that are equal when compared case-insensitively, and the
\* surviving entries keep the order of their first occurrence in the text.
C26_NoDuplicatesIgnoringCase ==
  call.op = "processIngredientsFromText"
    => \A i, j \in 1..Len(call.result[1]) :
         i < j
           => /\ toLowerCase(call.result[1][i]) # toLowerCase(call.result[1][j])
              /\ \A first \in
                      {[k \in {i, j} |-> indexOf(toLowerCase(call.args[1]),
                                                toLowerCase(call.result[1][k]))]} :
                    (first[i] # -1 /\ first[j] # -1) => first[i] < first[j]

(***************************************************************************)
(* The classifier.                                                         *)
(***************************************************************************)
\* C19: when an ingredient resolves to a KnowledgeBase entry (by exact key,
\* alias or similarity), the IngredientAnalysis the classifier returns
\* carries that entry's rating, confidence and explanation (with its health
\* concerns, alternatives and sources) unchanged; "Sodium Benzoate" with no
\* active dietary preference is rated avoid with confidence 80.
C19_ResolvedEntryIsCopied ==
  call.op = "analyzeIngredients"
    => \A i \in 1..Len(call.args[1]) :
         LET ingredientInfo == InfoOf(build.ingredients, call.args[1][i])
             analysis == call.result[1].ingredients[i]
         IN  /\ ingredientInfo # <<>>
                  => /\ analysis.rating = ingredientInfo[1].safetyRating
                     /\ analysis.confidence = ingredientInfo[1].confidence
                     /\ analysis.explanation = ingredientInfo[1].entry
             /\ call.args[1][i] = SodiumBenzoate
                  => analysis.rating = "avoid" /\ analysis.confidence = 80

\* C20: for an ingredient that resolves to no KnowledgeBase entry, the
\* rating and confidence analyzeIngredients returns are those of the first
\* matching rule of the ordered keyword table (acid, vitamin or mineral,
\* color or dye, flavor, sugar or syrup, oil or fat; otherwise caution with
\* confidence 40 to 50), and every candidate of the list is analysed.
C20_UnresolvedUsesKeywordTable ==
  call.op = "analyzeIngredients"
    => /\ Len(call.result[1].ingredients) = Len(call.args[1])
       /\ \A i \in 1..Len(call.args[1]) :
            LET rule == generateDefaultAnalysis(call.args[1][i])
                analysis == call.result[1].ingredients[i]
            IN  <<build.ingredients, call.args[1][i]>> \in UnresolvedNames
                  => /\ analysis.rating = rule.safetyRating
                     /\ IF rule.entry = "unknown"
                        THEN analysis.confidence \in 40..50
                        ELSE analysis.confidence = rule.confidence

(***************************************************************************)
(* The scan records.                                                       *)
(***************************************************************************)
\* C22: in every reachable state, a session whose status is completed, the
\* in-memory session object and its record in the history store alike,
\* carries an analysisResult: the status is set to completed only after the
\* AnalysisResult has been produced and attached.
C22_CompletedCarriesAnalysis ==
  /\ \A s \in Scans :
       session[s].status = "completed" => Len(session[s].analysisResult) = 1
  /\ \A i \in 1..Len(history) :
       history[i].status = "completed" => Len(history[i].analysisResult) = 1

\* A completed session is stored in the history and in memory.
C22_Witness ==
  \E s \in Scans, i \in 1..Len(history) :
    /\ session[s].status = "completed"
    /\ history[i].id = s
    /\ history[i].status = "completed"

\* C23: when extraction or a store write raises inside processScan, the
\* error processScan throws to its caller is that original error: the save
\* of the failed session in the catch block never replaces it with another
\* error, and the failed step is not run again.
C23_ThrowsOriginalError ==
  \A s \in Scans :
    /\ scan[s].pc = "thrown" => scan[s].thrown = scan[s].error
    /\ scan[s].error # <<>> => scan[s].step = 4

\* C27: every record written to the history store with status processing
\* is replaced by a record with status completed or failed: whenever a
\* processScan call has ended, returned or thrown, runs in which a store
\* write raises included, the history holds no record of its session that
\* is still in status processing.
C27_NoProcessingRecordAfterEnd ==
  \A s \in Scans :
    Ended(s) => \A i \in 1..Len(history) :
                  history[i].id = s => history[i].status # "processing"

(***************************************************************************)
(* The personalized rating of UserProfileService.                          *)
(***************************************************************************)
\* C21: UserProfileService.getPersonalizedRating never downgrades a rating
\* already at avoid: for every ingredient with base rating avoid, and every
\* set of custom avoidances, of any severity, and of active preferences,
\* the returned rating is avoid.
C21_AvoidStaysAvoid ==
  (call.op = "getPersonalizedRating" /\ call.args[2] = "avoid")
    => call.result[1].rating = "avoid"

C29_EditsAreNotLost ==
  [][\A e \in Editors :
       (ed[e].pc = "write" /\ ed'[e].pc = "idle")
         => /\ ed[e].op = "add"
                 => /\ profile'.active = profile.active
                    /\ \A i \in 1..Len(profile.customAvoidances) :
                         \E k \in 1..Len(profile'.customAvoidances) :
                           profile'.customAvoidances[k] = profile.customAvoidances[i]
            /\ ed[e].op = "update"
                 => profile'.customAvoidances = profile.customAvoidances
            /\ ed[e].op = "remove"
                 => /\ profile'.active = profile.active
                    /\ \A k \in 1..Len(profile'.customAvoidances) :
                         \E i \in 1..Len(profile.customAvoidances) :
                           profile.customAvoidances[i] = profile'.customAvoidances[k]]_vars

(***************************************************************************)
(* The history store.                                                      *)
(***************************************************************************)
\* C28: after any sequence of processScan, deleteScanSession and
\* clearScanHistory operations run one at a time, and also when the delete
\* or a clear comes in the middle of a processScan, the stored scan history
\* holds at most 50 sessions and no two stored sessions have the
\* same id: a later save of a session replaces its record in place, a new
\* session is inserted at the front.
C28_HistoryIsBoundedAndUnique ==
  /\ Len(history) <= HISTORY_LIMIT
  /\ \A i, j \in 1..Len(history) : history[i].id = history[j].id => i = j

\* Two scans have ended on a full store: their records stand at the front
\* and the store holds 50 records.
C28_Witness ==
  /\ \A s \in Scans : Ended(s)
  /\ Len(history) = HISTORY_LIMIT
  /\ {history[1].id, history[2].id} = Scans

\* C30: a deleted session stays deleted: once deleteScanSession(id) has
\* completed, no later state of the scan history holds a session with that
\* id, even when a processScan call for that session is in flight at the
\* time of the delete.
C30_DeletedStaysDeleted ==
  call.op = "deleted" => ~HasSession(history, call.args[1])

====
